---------------------------- MODULE Spec2Model ----------------------------
(***************************************************************************)
(* The metadata broker core of undermoon: MetaStore (src/broker/store.rs). *)
(* The command reply pair of the proxy (src/proxy/command.rs) follows at   *)
(* the end of the module.                                                  *)
(*                                                                         *)
(* Conventions.                                                            *)
(*  - An address "host:port" is the sequence of its ':'-separated parts,   *)
(*    so split(':').count() is Len and split(':').next() is the head.      *)
(*  - Option<T> is a sequence of length 0 (None) or 1 (Some).              *)
(*  - Vec and fixed arrays are sequences; Rust index i is TLA+ index i+1.  *)
(*    Indices stored in data (MigrationMetaStore) stay 0-based.            *)
(*  - A HashMap/HashSet iteration order is unspecified, so every choice    *)
(*    that depends on it is a nondeterministic choice.                     *)
(***************************************************************************)
EXTENDS Integers, Sequences, FiniteSets, TLC

VARIABLES global_epoch, cluster, all_proxies, failed_proxies, failures,
          now, op, res, pair

vars == <<global_epoch, cluster, all_proxies, failed_proxies, failures,
          now, op, res, pair>>

-----------------------------------------------------------------------------
(* Program constants *)

SLOT_NUM == 16384
NODES_PER_PROXY == 2
CHUNK_PARTS == 2
CHUNK_HALF_NODE_NUM == 2
CHUNK_NODE_NUM == 4

-----------------------------------------------------------------------------
(* Bounds of the model *)

\* mutators are explored while global_epoch is below this value
\* (commit_migration one epoch further, so that a plan made at the last
\* epoch is committed)
MaxEpoch == 7
\* proxies per host in the address universe: ports 7001 .. 7000+PortsPerHost
PortsPerHost == 2
\* the wall clock runs over 0 .. MaxClock seconds
MaxClock == 1
\* the largest number of chunks requested in one add_cluster/auto_add_nodes
MaxChunkReq == 3
\* the scale-up driver is explored while global_epoch is below this value
MaxScaleEpoch == 17
\* the cluster operations in any order are explored while global_epoch is below this
MaxClusterEpoch == 13
\* the proxy pool operations are explored while global_epoch is below this
MaxPoolEpoch == 4
\* the wall clock of the proxy pool runs over 0 .. MaxPoolClock seconds
MaxPoolClock == 2
\* the number of epoch bumps explored after the start of the growing cluster
GrowSteps == 5
\* the number of cluster calls explored from a pool of four hosts
AllocSteps == 2

Hosts == {"h1", "h2"}
Reporters == {"r1"}
ValidNames == {"test_db", "another_db", "x"}
\* a name DBName::from rejects
InvalidName == "!"
Names == ValidNames \cup {InvalidName}

-----------------------------------------------------------------------------
(* Addresses *)

ProxyAddr(h, i) == <<h, 7000 + i>>

\* the node addresses add_testing_proxies gives to proxy i of a host
NodeAddrs(h, i) == << <<h, 6000 + 2 * i>>, <<h, 6000 + 2 * i + 1>> >>

AllProxyAddrs == {ProxyAddr(h, i) : h \in Hosts, i \in 1..PortsPerHost}

\* an address without any ':' (one part only)
BadAddr == <<"h1">>

NodesOf(addr) == NodeAddrs(addr[1], addr[2] - 7000)

\* address.split(':').next()
HostOf(addr) == addr[1]

ProxyResource(addr, nodes) == [proxy_address |-> addr, node_addresses |-> nodes]

-----------------------------------------------------------------------------
(* Generic helpers *)

None == <<>>
Some(x) == <<x>>
IsSome(o) == Len(o) = 1
IsNone(o) == Len(o) = 0

\* a variant of min that returns its first argument
First(a, b) == a

\* std::cmp::min
Min(a, b) == IF a <= b THEN a ELSE b

RECURSIVE SumSeq(_)
SumSeq(s) == IF s = <<>> THEN 0 ELSE Head(s) + SumSeq(Tail(s))

RECURSIVE FlattenSeq(_)
FlattenSeq(ss) == IF ss = <<>> THEN <<>> ELSE Head(ss) \o FlattenSeq(Tail(ss))

\* a variant of RemoveAt that removes nothing
KeepAt(s, k) == s

\* Vec::remove(index), index 1-based here
RemoveAt(s, k) == SubSeq(s, 1, k - 1) \o SubSeq(s, k + 1, Len(s))

\* the restriction of a map to the keys other than k (HashMap::remove)
MapRemove(m, k) == [x \in (DOMAIN m) \ {k} |-> m[x]]

-----------------------------------------------------------------------------
(* Range and RangeList (common::cluster) *)

\* Range(start, end), both ends inclusive
RangeLen(r) == r[2] - r[1] + 1

\* RangeList::get_slots_num
get_slots_num(rl) == SumSeq([k \in 1..Len(rl) |-> RangeLen(rl[k])])

\* RangeList::from_single_range
from_single_range(r) == <<r>>

\* insertion of a range into a list sorted by start
RECURSIVE InsertSorted(_, _)
InsertSorted(r, s) ==
    IF s = <<>> THEN <<r>>
    ELSE IF r[1] <= Head(s)[1] THEN <<r>> \o s
    ELSE <<Head(s)>> \o InsertSorted(r, Tail(s))

RECURSIVE SortRanges(_)
SortRanges(s) == IF s = <<>> THEN <<>> ELSE InsertSorted(Head(s), SortRanges(Tail(s)))

\* coalescing of adjacent or overlapping ranges of a sorted list
RECURSIVE Coalesce(_)
Coalesce(s) ==
    IF Len(s) <= 1 THEN s
    ELSE LET a == s[1]
             b == s[2]
         IN  IF b[1] <= a[2] + 1
             THEN Coalesce(<< <<a[1], IF b[2] > a[2] THEN b[2] ELSE a[2]>> >>
                           \o SubSeq(s, 3, Len(s)))
             ELSE <<a>> \o Coalesce(Tail(s))

\* RangeList::merge_another: append, then sort and coalesce
merge_another(rl, other) == Coalesce(SortRanges(rl \o other))


-----------------------------------------------------------------------------
(* The store as a value: the five fields of MetaStore *)

Store(e, c, ap, fp, fl) ==
    [global_epoch |-> e, cluster |-> c, all_proxies |-> ap,
     failed_proxies |-> fp, failures |-> fl]

\* MetaStore::default
DefaultStore == Store(0, None, <<>>, {}, <<>>)

\* a variant of bump_global_epoch that keeps the epoch
keep_global_epoch(s) == s

\* MetaStore::bump_global_epoch
bump_global_epoch(s) == [s EXCEPT !.global_epoch = @ + 1]

\* the chunks of the cluster, empty when there is no cluster
ChunksOf(s) == IF IsSome(s.cluster) THEN s.cluster[1].chunks ELSE <<>>

\* the proxy addresses some chunk references (occupied_proxies)
OccupiedProxies(s) ==
    {ChunksOf(s)[k].proxy_addresses[j] : k \in 1..Len(ChunksOf(s)), j \in 1..CHUNK_PARTS}

\* a variant of get_free_proxies that skips the test on the failure reports
get_free_proxies_ignoring_failures(s) ==
    {p \in DOMAIN s.all_proxies :
        /\ p \notin s.failed_proxies
        /\ p \notin OccupiedProxies(s)}

\* MetaStore::get_free_proxies (a Vec in HashMap order: a set here)
get_free_proxies(s) ==
    {p \in DOMAIN s.all_proxies :
        /\ p \notin s.failed_proxies
        /\ p \notin DOMAIN s.failures
        /\ p \notin OccupiedProxies(s)}

\* how often the chunks pair host a (as first or second) with host b
LinkedNum(s, a, b) ==
    LET cs == ChunksOf(s)
    IN  Cardinality({k \in 1..Len(cs) :
                        /\ HostOf(cs[k].proxy_addresses[1]) = a
                        /\ HostOf(cs[k].proxy_addresses[2]) = b})
      + Cardinality({k \in 1..Len(cs) :
                        /\ HostOf(cs[k].proxy_addresses[2]) = a
                        /\ HostOf(cs[k].proxy_addresses[1]) = b})

\* a variant of build_link_table that has rows for the hosts of the chunks only
build_link_table_of_chunks(s) ==
    LET cs == ChunksOf(s)
        pairs == {<<HostOf(cs[k].proxy_addresses[1]), HostOf(cs[k].proxy_addresses[2])>> :
                     k \in 1..Len(cs)}
                 \cup {<<HostOf(cs[k].proxy_addresses[2]), HostOf(cs[k].proxy_addresses[1])>> :
                          k \in 1..Len(cs)}
    IN  [a \in {pr[1] : pr \in pairs} |->
            [b \in {pr[2] : pr \in {q \in pairs : q[1] = a}} |-> LinkedNum(s, a, b)]]

\* MetaStore::build_link_table: host => host => number of chunks pairing them
build_link_table(s) ==
    LET cs == ChunksOf(s)
        known == {HostOf(p) : p \in DOMAIN s.all_proxies}
        pairs == {<<a, b>> \in known \X known : a # b}
                 \cup {<<HostOf(cs[k].proxy_addresses[1]), HostOf(cs[k].proxy_addresses[2])>> :
                          k \in 1..Len(cs)}
                 \cup {<<HostOf(cs[k].proxy_addresses[2]), HostOf(cs[k].proxy_addresses[1])>> :
                          k \in 1..Len(cs)}
    IN  [a \in {pr[1] : pr \in pairs} |->
            [b \in {pr[2] : pr \in {q \in pairs : q[1] = a}} |-> LinkedNum(s, a, b)]]

\* host => free proxies of the host (consume_proxy, lines 957-968)
HostProxies(free) ==
    [h \in {HostOf(p) : p \in free} |-> {p \in free : HostOf(p) = h}]

SumProxyNum(hp) == Cardinality(UNION {hp[h] : h \in DOMAIN hp})

MaxProxyNum(hp) ==
    IF DOMAIN hp = {} THEN 0
    ELSE CHOOSE m \in {Cardinality(hp[h]) : h \in DOMAIN hp} :
            \A h \in DOMAIN hp : Cardinality(hp[h]) <= m

\* the number of pops of the while loop of remove_redundant_chunks
RECURSIVE PruneNum(_, _)
PruneNum(max_proxy_num, free_proxy_num) ==
    IF max_proxy_num * 2 > free_proxy_num
    THEN 1 + PruneNum(max_proxy_num - 1, free_proxy_num - 1)
    ELSE 0

\* a variant of remove_redundant_chunks that prunes nothing
keep_redundant_chunks(hp, expected_num) ==
    IF SumProxyNum(hp) < expected_num
    THEN {[err |-> "NoAvailableResource"]}
    ELSE {[err |-> "Ok", host_proxies |-> hp]}

\* a variant of remove_redundant_chunks that pops at most one proxy
remove_redundant_chunks_once(hp, expected_num) ==
    LET free_proxy_num == SumProxyNum(hp)
        max_proxy_num == MaxProxyNum(hp)
        k == IF max_proxy_num * 2 > free_proxy_num THEN 1 ELSE 0
    IN  IF free_proxy_num - k < expected_num
        THEN {[err |-> "NoAvailableResource"]}
        ELSE IF DOMAIN hp = {} THEN {[err |-> "Ok", host_proxies |-> hp]}
        ELSE UNION {{[err |-> "Ok", host_proxies |-> [hp EXCEPT ![h] = @ \ dropped]] :
                        dropped \in {d \in SUBSET hp[h] : Cardinality(d) = k}} :
                    h \in {x \in DOMAIN hp : Cardinality(hp[x]) = max_proxy_num}}

\* MetaStore::remove_redundant_chunks: the set of possible outcomes
remove_redundant_chunks(hp, expected_num) ==
    LET free_proxy_num == SumProxyNum(hp)
        max_proxy_num == MaxProxyNum(hp)
        k == PruneNum(max_proxy_num, free_proxy_num)
    IN  IF free_proxy_num - k < expected_num
        THEN {[err |-> "NoAvailableResource"]}
        ELSE IF DOMAIN hp = {} THEN {[err |-> "Ok", host_proxies |-> hp]}
        ELSE UNION {{[err |-> "Ok", host_proxies |-> [hp EXCEPT ![h] = @ \ dropped]] :
                        dropped \in {d \in SUBSET hp[h] : Cardinality(d) = k}} :
                    h \in {x \in DOMAIN hp : Cardinality(hp[x]) = max_proxy_num}}

\* a variant of the pairing loop that does not count the pairs it has made
RECURSIVE AllocLoopKeepingLinks(_, _, _, _)
AllocLoopKeepingLinks(hp, link_table, new_proxy_pairs, expected_num) ==
    IF ~(Len(new_proxy_pairs) * 2 < expected_num)
    THEN {[err |-> "Ok", pairs |-> new_proxy_pairs]}
    ELSE IF DOMAIN hp = {} \/ MaxProxyNum(hp) = 0
    THEN {[err |-> "Panic"]}
    ELSE UNION {
        LET hp1 == [hp EXCEPT ![first_host] = @ \ {first_address}]
        IN  IF first_host \notin DOMAIN link_table
            THEN {[err |-> "Panic"]}
            ELSE LET peers == link_table[first_host]
                     cand == {h \in DOMAIN peers :
                                 /\ h # first_host
                                 /\ h \in DOMAIN hp1
                                 /\ hp1[h] # {}}
                     best == {h \in cand : \A g \in cand : peers[h] <= peers[g]}
                 IN  IF cand = {}
                     THEN {[err |-> "Panic"]}
                     ELSE UNION {
                         AllocLoopKeepingLinks(
                             [hp1 EXCEPT ![second_host] = @ \ {second_address}],
                             link_table,
                             Append(new_proxy_pairs, <<first_address, second_address>>),
                             expected_num) :
                         <<second_host, second_address>> \in
                            {<<h, a>> \in best \X (UNION {hp1[x] : x \in best}) : a \in hp1[h]}}
        : <<first_host, first_address>> \in
            {<<h, a>> \in (DOMAIN hp) \X (UNION {hp[x] : x \in DOMAIN hp}) :
                /\ Cardinality(hp[h]) = MaxProxyNum(hp)
                /\ a \in hp[h]}}

\* the pairing loop of allocate_chunk (lines 1042-1092): the possible outcomes
RECURSIVE AllocLoop(_, _, _, _)
AllocLoop(hp, link_table, new_proxy_pairs, expected_num) ==
    IF ~(Len(new_proxy_pairs) * 2 < expected_num)
    THEN {[err |-> "Ok", pairs |-> new_proxy_pairs]}
    ELSE IF DOMAIN hp = {} \/ MaxProxyNum(hp) = 0
    THEN {[err |-> "Panic"]}
    ELSE UNION {
        LET hp1 == [hp EXCEPT ![first_host] = @ \ {first_address}]
        IN  IF first_host \notin DOMAIN link_table
            THEN {[err |-> "Panic"]}
            ELSE LET peers == link_table[first_host]
                     cand == {h \in DOMAIN peers :
                                 /\ h # first_host
                                 /\ h \in DOMAIN hp1
                                 /\ hp1[h] # {}}
                     best == {h \in cand : \A g \in cand : peers[h] <= peers[g]}
                 IN  IF cand = {}
                     THEN {[err |-> "Panic"]}
                     ELSE UNION {
                         AllocLoop([hp1 EXCEPT ![second_host] = @ \ {second_address}],
                                   [link_table EXCEPT
                                        ![first_host][second_host] = @ + 1,
                                        ![second_host][first_host] = @ + 1],
                                   Append(new_proxy_pairs, <<first_address, second_address>>),
                                   expected_num) :
                         <<second_host, second_address>> \in
                            {<<h, a>> \in best \X (UNION {hp1[x] : x \in best}) : a \in hp1[h]}}
        : <<first_host, first_address>> \in
            {<<h, a>> \in (DOMAIN hp) \X (UNION {hp[x] : x \in DOMAIN hp}) :
                /\ Cardinality(hp[h]) = MaxProxyNum(hp)
                /\ a \in hp[h]}}

\* MetaStore::allocate_chunk
allocate_chunk(hp, link_table, expected_num) ==
    LET max_proxy_num == MaxProxyNum(hp)
        sum_proxy_num == SumProxyNum(hp)
    IN  IF sum_proxy_num < expected_num THEN {[err |-> "NoAvailableResource"]}
        ELSE IF max_proxy_num * 2 > sum_proxy_num THEN {[err |-> "ResourceNotBalance"]}
        ELSE AllocLoop(hp, link_table, <<>>, expected_num)

\* MetaStore::consume_proxy: the possible outcomes, pairs of ProxyResource on Ok
consume_proxy(s, proxy_num) ==
    UNION {
        IF r.err # "Ok" THEN {r}
        ELSE {IF a.err # "Ok" THEN a
              ELSE [err |-> "Ok",
                    pairs |-> [k \in 1..Len(a.pairs) |->
                                <<ProxyResource(a.pairs[k][1], s.all_proxies[a.pairs[k][1]]),
                                  ProxyResource(a.pairs[k][2], s.all_proxies[a.pairs[k][2]])>>]] :
              a \in allocate_chunk(r.host_proxies, build_link_table(s), proxy_num)}
        : r \in remove_redundant_chunks(HostProxies(get_free_proxies(s)), proxy_num)}


-----------------------------------------------------------------------------
(* Chunks *)

\* the start slot of master `index`: curr_slot of proxy_resource_to_chunk_store
\* when create_slots(index) is called
RECURSIVE CurrSlot(_, _, _)
CurrSlot(index, average, remainder) ==
    IF index = 0 THEN 0
    ELSE CurrSlot(index - 1, average, remainder) + average
         + (IF index - 1 < remainder THEN 1 ELSE 0)

\* a variant of create_slots that gives the remainder to no master
create_slots_without_remainder(index, average, remainder) ==
    from_single_range(<<index * average, (index + 1) * average - 1>>)

\* the closure create_slots (lines 452-461); a stable SlotRange has tag None and
\* is kept as its range list
create_slots(index, average, remainder) ==
    LET r == IF index < remainder THEN 1 ELSE 0
        start == CurrSlot(index, average, remainder)
        end == start + average + r
    IN  from_single_range(<<start, end - 1>>)

\* MetaStore::proxy_resource_to_chunk_store
proxy_resource_to_chunk_store(proxy_resource_arr, with_slots) ==
    LET master_num == Len(proxy_resource_arr) * 2
        average == SLOT_NUM \div master_num
        remainder == SLOT_NUM - average * master_num
    IN  [k \in 1..Len(proxy_resource_arr) |->
            LET i == k - 1
                a == 2 * i
                b == a + 1
                first_proxy == proxy_resource_arr[k][1]
                second_proxy == proxy_resource_arr[k][2]
            IN  [role_position |-> "Normal",
                 stable_slots |->
                    IF with_slots
                    THEN <<Some(create_slots(a, average, remainder)),
                           Some(create_slots(b, average, remainder))>>
                    ELSE <<None, None>>,
                 migrating_slots |-> << <<>>, <<>> >>,
                 proxy_addresses |->
                    <<first_proxy.proxy_address, second_proxy.proxy_address>>,
                 node_addresses |->
                    <<first_proxy.node_addresses[1], first_proxy.node_addresses[2],
                      second_proxy.node_addresses[1], second_proxy.node_addresses[2]>>]]

\* MigrationSlotRangeStore::chunk_part_to_node_index (0-based part and index)
chunk_part_to_node_index(chunk_part, role_position) ==
    IF chunk_part = 0 /\ role_position = "SecondChunkMaster" THEN 3
    ELSE IF chunk_part = 1 /\ role_position = "FirstChunkMaster" THEN 2
    ELSE 2 * chunk_part

\* MigrationSlotRangeStore::to_slot_range
to_slot_range(e, chunks) ==
    LET src_chunk == chunks[e.meta.src_chunk_index + 1]
        dst_chunk == chunks[e.meta.dst_chunk_index + 1]
        meta ==
            [epoch |-> e.meta.epoch,
             src_proxy_address |-> src_chunk.proxy_addresses[e.meta.src_chunk_part + 1],
             src_node_address |->
                src_chunk.node_addresses[
                    chunk_part_to_node_index(e.meta.src_chunk_part, src_chunk.role_position) + 1],
             dst_proxy_address |-> dst_chunk.proxy_addresses[e.meta.dst_chunk_part + 1],
             dst_node_address |->
                dst_chunk.node_addresses[
                    chunk_part_to_node_index(e.meta.dst_chunk_part, dst_chunk.role_position) + 1]]
    IN  [range_list |-> e.range_list,
         tag |-> [kind |-> IF e.is_migrating THEN "Migrating" ELSE "Importing",
                  meta |-> meta]]

\* the slot ranges get_cluster lists for chunk part j (0-based): the stable
\* range first, then the migration entries in order (lines 279-306)
PartSlots(chunk, j, chunks) ==
    (IF IsSome(chunk.stable_slots[j + 1])
     THEN <<[range_list |-> chunk.stable_slots[j + 1][1], tag |-> [kind |-> "None"]]>>
     ELSE <<>>)
    \o [k \in 1..Len(chunk.migrating_slots[j + 1]) |->
            to_slot_range(chunk.migrating_slots[j + 1][k], chunks)]

\* a variant of ChunkNode that makes the second proxy of a Normal chunk all Replica
ChunkNodeByHalves(chunk, i, chunks) ==
    LET first_slot_index ==
            IF chunk.role_position = "SecondChunkMaster" THEN 2 ELSE 0
        second_slot_index ==
            CASE chunk.role_position = "Normal" -> 2
              [] chunk.role_position = "FirstChunkMaster" -> 1
              [] OTHER -> 3
        role ==
            CASE chunk.role_position = "Normal" /\ i >= CHUNK_HALF_NODE_NUM -> "Replica"
              [] chunk.role_position = "FirstChunkMaster" /\ i >= CHUNK_HALF_NODE_NUM -> "Replica"
              [] chunk.role_position = "SecondChunkMaster" /\ i < CHUNK_HALF_NODE_NUM -> "Replica"
              [] OTHER -> "Master"
        peer_index == CASE i = 0 -> 3 [] i = 1 -> 2 [] i = 2 -> 1 [] OTHER -> 0
    IN  [address |-> chunk.node_addresses[i + 1],
         proxy_address |-> chunk.proxy_addresses[(i \div 2) + 1],
         slots |-> (IF i = first_slot_index THEN PartSlots(chunk, 0, chunks) ELSE <<>>)
                   \o (IF i = second_slot_index THEN PartSlots(chunk, 1, chunks) ELSE <<>>),
         role |-> role,
         peer |-> [node_address |-> chunk.node_addresses[peer_index + 1],
                   proxy_address |-> chunk.proxy_addresses[(peer_index \div 2) + 1]]]

\* the node with 0-based index i of a chunk, as get_cluster builds it
ChunkNode(chunk, i, chunks) ==
    LET first_slot_index ==
            IF chunk.role_position = "SecondChunkMaster" THEN 2 ELSE 0
        second_slot_index ==
            CASE chunk.role_position = "Normal" -> 2
              [] chunk.role_position = "FirstChunkMaster" -> 1
              [] OTHER -> 3
        role ==
            CASE chunk.role_position = "Normal" /\ i % 2 = 1 -> "Replica"
              [] chunk.role_position = "FirstChunkMaster" /\ i >= CHUNK_HALF_NODE_NUM -> "Replica"
              [] chunk.role_position = "SecondChunkMaster" /\ i < CHUNK_HALF_NODE_NUM -> "Replica"
              [] OTHER -> "Master"
        peer_index == CASE i = 0 -> 3 [] i = 1 -> 2 [] i = 2 -> 1 [] OTHER -> 0
    IN  [address |-> chunk.node_addresses[i + 1],
         proxy_address |-> chunk.proxy_addresses[(i \div 2) + 1],
         slots |-> (IF i = first_slot_index THEN PartSlots(chunk, 0, chunks) ELSE <<>>)
                   \o (IF i = second_slot_index THEN PartSlots(chunk, 1, chunks) ELSE <<>>),
         role |-> role,
         peer |-> [node_address |-> chunk.node_addresses[peer_index + 1],
                   proxy_address |-> chunk.proxy_addresses[(peer_index \div 2) + 1]]]

\* MetaStore::get_cluster: the nodes of the projection, chunk after chunk
\* (empty when there is no cluster)
get_cluster_nodes(s) ==
    LET chunks == ChunksOf(s)
    IN  FlattenSeq([k \in 1..Len(chunks) |->
                      [n \in 1..CHUNK_NODE_NUM |-> ChunkNode(chunks[k], n - 1, chunks)]])

\* some node of the projection has this proxy address
InUse(s, addr) ==
    LET nodes == get_cluster_nodes(s)
    IN  \E k \in 1..Len(nodes) : nodes[k].proxy_address = addr


-----------------------------------------------------------------------------
(* Migration planning *)

\* the while loop of remove_slots_from_src (lines 626-693) for the source
\* master at chunk ci, part cp (0-based); st holds the mutable locals
RECURSIVE RemoveWhile(_, _, _, _)
RemoveWhile(st, ci, cp, k) ==
    IF st.curr_dst_master_index = k.dst_master_num THEN st
    ELSE
    LET range_list == st.chunks[ci + 1].stable_slots[cp + 1][1]
        src_master_index == ci * 2 + cp
        src_r == IF src_master_index < k.remainder THEN 1 ELSE 0
        dst_master_index == k.src_master_num + st.curr_dst_master_index
        dst_r == IF dst_master_index < k.remainder THEN 1 ELSE 0
        src_final_num == k.average + src_r
        dst_final_num == k.average + dst_r
    IN  IF get_slots_num(range_list) <= src_final_num THEN st
        ELSE
        LET need_num == dst_final_num - st.curr_slots_num
            available_num == get_slots_num(range_list) - src_final_num
            remove_num == Min(need_num, available_num)
            last == range_list[Len(range_list)]
            num == RangeLen(last)
            whole == remove_num >= num
            range_list1 ==
                IF whole THEN SubSeq(range_list, 1, Len(range_list) - 1)
                ELSE [range_list EXCEPT ![Len(range_list)] = <<last[1], last[2] - remove_num>>]
            pulled == IF whole THEN last ELSE <<last[2] - remove_num + 1, last[2]>>
            slots_num1 == st.curr_slots_num + (IF whole THEN num ELSE remove_num)
            st1 == [st EXCEPT !.chunks[ci + 1].stable_slots[cp + 1] = Some(range_list1),
                              !.curr_dst_slots = Append(@, pulled),
                              !.curr_slots_num = slots_num1]
            full == slots_num1 >= dst_final_num
            done == get_slots_num(range_list1) <= src_final_num
        IN  IF full \/ done
            THEN LET emitted ==
                        [ranges |-> st1.curr_dst_slots,
                         meta |-> [epoch |-> k.epoch,
                                   src_chunk_index |-> ci,
                                   src_chunk_part |-> cp,
                                   dst_chunk_index |->
                                        k.src_chunk_num + (st.curr_dst_master_index \div 2),
                                   dst_chunk_part |-> st.curr_dst_master_index % 2]]
                     st2 == [st1 EXCEPT !.migration_slots = Append(@, emitted),
                                        !.curr_dst_slots = <<>>,
                                        !.curr_dst_master_index = IF full THEN @ + 1 ELSE @,
                                        !.curr_slots_num = IF full THEN 0 ELSE @]
                 IN  IF done THEN st2 ELSE RemoveWhile(st2, ci, cp, k)
            ELSE RemoveWhile(st1, ci, cp, k)

\* a variant of RemoveFor that takes slots from the first master only
RemoveForFirstMaster(st, m, k) ==
    IF IsSome(st.chunks[1].stable_slots[1]) THEN RemoveWhile(st, 0, 0, k) ELSE st

\* the two for loops of remove_slots_from_src over the masters m, m+1, ...
RECURSIVE RemoveFor(_, _, _)
RemoveFor(st, m, k) ==
    IF m >= 2 * Len(st.chunks) THEN st
    ELSE LET ci == m \div 2
             cp == m % 2
         IN  IF IsSome(st.chunks[ci + 1].stable_slots[cp + 1])
             THEN RemoveFor(RemoveWhile(st, ci, cp, k), m + 1, k)
             ELSE RemoveFor(st, m + 1, k)

\* MetaStore::remove_slots_from_src: the chunks after the removal and the
\* emitted MigrationSlots
remove_slots_from_src(chunks, epoch) ==
    LET dst_chunk_num ==
            Cardinality({c \in 1..Len(chunks) :
                            IsNone(chunks[c].stable_slots[1]) /\ IsNone(chunks[c].stable_slots[2])})
        master_num == Len(chunks) * 2
        src_chunk_num == Len(chunks) - dst_chunk_num
        average == SLOT_NUM \div master_num
        k == [dst_master_num |-> dst_chunk_num * 2,
              src_chunk_num |-> src_chunk_num,
              src_master_num |-> src_chunk_num * 2,
              average |-> average,
              remainder |-> SLOT_NUM - average * master_num,
              epoch |-> epoch]
        st == RemoveFor([chunks |-> chunks,
                         curr_dst_master_index |-> 0,
                         migration_slots |-> <<>>,
                         curr_dst_slots |-> <<>>,
                         curr_slots_num |-> 0], 0, k)
    IN  [chunks |-> st.chunks, migration_slots |-> st.migration_slots]

\* a variant of MigrationSlotRangeStore that records part 0 as the destination part
MigrationSlotRangeStoreToFirstPart(range_list, is_migrating, meta) ==
    [range_list |-> range_list, is_migrating |-> is_migrating,
     meta |-> [meta EXCEPT !.dst_chunk_part = 0]]

\* MigrationSlotRangeStore
MigrationSlotRangeStore(range_list, is_migrating, meta) ==
    [range_list |-> range_list, is_migrating |-> is_migrating, meta |-> meta]

\* a variant of assign_dst_slots that records the source entries only
RECURSIVE assign_src_slots(_, _)
assign_src_slots(chunks, migration_slots) ==
    IF migration_slots = <<>> THEN chunks
    ELSE LET ms == Head(migration_slots)
         IN  assign_src_slots(
                [chunks EXCEPT
                    ![ms.meta.src_chunk_index + 1].migrating_slots[ms.meta.src_chunk_part + 1] =
                        Append(@, MigrationSlotRangeStore(ms.ranges, TRUE, ms.meta))],
                Tail(migration_slots))

\* a variant of assign_dst_slots that records every source entry twice
RECURSIVE assign_slots_twice(_, _)
assign_slots_twice(chunks, migration_slots) ==
    IF migration_slots = <<>> THEN chunks
    ELSE LET ms == Head(migration_slots)
             c1 == [chunks EXCEPT
                       ![ms.meta.src_chunk_index + 1].migrating_slots[ms.meta.src_chunk_part + 1] =
                           Append(Append(@, MigrationSlotRangeStore(ms.ranges, TRUE, ms.meta)),
                                  MigrationSlotRangeStore(ms.ranges, TRUE, ms.meta))]
             c2 == [c1 EXCEPT
                       ![ms.meta.dst_chunk_index + 1].migrating_slots[ms.meta.dst_chunk_part + 1] =
                           Append(@, MigrationSlotRangeStore(ms.ranges, FALSE, ms.meta))]
         IN  assign_slots_twice(c2, Tail(migration_slots))

\* MetaStore::assign_dst_slots
RECURSIVE assign_dst_slots(_, _)
assign_dst_slots(chunks, migration_slots) ==
    IF migration_slots = <<>> THEN chunks
    ELSE LET ms == Head(migration_slots)
             c1 == [chunks EXCEPT
                       ![ms.meta.src_chunk_index + 1].migrating_slots[ms.meta.src_chunk_part + 1] =
                           Append(@, MigrationSlotRangeStore(ms.ranges, TRUE, ms.meta))]
             c2 == [c1 EXCEPT
                       ![ms.meta.dst_chunk_index + 1].migrating_slots[ms.meta.dst_chunk_part + 1] =
                           Append(@, MigrationSlotRangeStore(ms.ranges, FALSE, ms.meta))]
         IN  assign_dst_slots(c2, Tail(migration_slots))

\* a variant of running_migration that a single non-empty list satisfies
any_migration(chunks) ==
    \E c \in 1..Len(chunks) :
        \E j \in 1..CHUNK_PARTS : chunks[c].migrating_slots[j] # <<>>

\* the running_migration test of migrate_slots (lines 588-591)
running_migration(chunks) ==
    \E c \in 1..Len(chunks) :
        ~(\E j \in 1..CHUNK_PARTS : chunks[c].migrating_slots[j] = <<>>)


-----------------------------------------------------------------------------
(* The operations of MetaStore, as functions from a store (and the call's   *)
(* arguments) to the set of possible outcomes: the store afterwards, the    *)
(* error ("Ok" on success) and the returned value.                          *)

Out(s, err, ret) == [store |-> s, err |-> err, ret |-> ret]

\* DBName::from succeeds
ValidName(name) == name \in ValidNames

\* the length of the longest prefix of nodes with the proxy address pa
RECURSIVE SameProxyPrefix(_, _)
SameProxyPrefix(nodes, pa) ==
    IF nodes = <<>> \/ Head(nodes).proxy_address # pa THEN 0
    ELSE 1 + SameProxyPrefix(Tail(nodes), pa)

\* itertools group_by on the proxy address, each group as a PeerProxy
RECURSIVE GroupPeers(_)
GroupPeers(nodes) ==
    IF nodes = <<>> THEN <<>>
    ELSE LET pa == Head(nodes).proxy_address
             n == SameProxyPrefix(nodes, pa)
         IN  <<[proxy_address |-> pa,
                slots |-> FlattenSeq([k \in 1..n |-> nodes[k].slots])]>>
             \o GroupPeers(SubSeq(nodes, n + 1, Len(nodes)))

\* a variant of get_proxy_by_address that lists the nodes of a used proxy as free too
get_proxy_by_address_with_free_nodes(s, address) ==
    IF address \notin DOMAIN s.all_proxies THEN None
    ELSE LET node_resource == s.all_proxies[address]
             all == get_cluster_nodes(s)
             nodes == SelectSeq(all, LAMBDA n : n.proxy_address = address)
         IN  IF IsNone(s.cluster) \/ nodes = <<>>
             THEN Some([address |-> address, epoch |-> s.global_epoch, nodes |-> <<>>,
                        free_nodes |-> node_resource, peers |-> <<>>])
             ELSE Some([address |-> address, epoch |-> s.global_epoch, nodes |-> nodes,
                        free_nodes |-> node_resource,
                        peers |-> GroupPeers(SelectSeq(all,
                            LAMBDA n : n.role = "Master" /\ n.proxy_address # address))])

\* MetaStore::get_proxy_by_address
get_proxy_by_address(s, address) ==
    IF address \notin DOMAIN s.all_proxies THEN None
    ELSE LET node_resource == s.all_proxies[address]
             all == get_cluster_nodes(s)
             nodes == SelectSeq(all, LAMBDA n : n.proxy_address = address)
         IN  IF IsNone(s.cluster) \/ nodes = <<>>
             THEN Some([address |-> address, epoch |-> s.global_epoch, nodes |-> <<>>,
                        free_nodes |-> node_resource, peers |-> <<>>])
             ELSE Some([address |-> address, epoch |-> s.global_epoch, nodes |-> nodes,
                        free_nodes |-> <<>>,
                        peers |-> GroupPeers(SelectSeq(all,
                            LAMBDA n : n.role = "Master" /\ n.proxy_address # address))])

\* MetaStore::add_failure, called at clock second t
add_failure(s, address, reporter_id, t) ==
    LET s1 == bump_global_epoch(s)
        old == IF address \in DOMAIN s.failures THEN s.failures[address] ELSE <<>>
        new == [r \in (DOMAIN old) \cup {reporter_id} |->
                    IF r = reporter_id THEN t ELSE old[r]]
    IN  {Out([s1 EXCEPT !.failures =
                [a \in (DOMAIN s.failures) \cup {address} |->
                    IF a = address THEN new ELSE s.failures[a]]], "Ok", None)}

\* a variant of get_failures that picks the addresses to return before the purge
get_failures_counting_first(s, falure_ttl, failure_quorum, t) ==
    LET kept == [a \in DOMAIN s.failures |->
                    [r \in {x \in DOMAIN s.failures[a] : t - s.failures[a][x] < falure_ttl}
                        |-> s.failures[a][r]]]
        live == [a \in {x \in DOMAIN kept : DOMAIN kept[x] # {}} |-> kept[a]]
    IN  {Out([s EXCEPT !.failures = live], "Ok",
             {a \in DOMAIN s.failures : Cardinality(DOMAIN s.failures[a]) >= failure_quorum})}

\* a variant of get_failures that keeps the reports whose age equals the ttl
get_failures_inclusive(s, falure_ttl, failure_quorum, t) ==
    LET kept == [a \in DOMAIN s.failures |->
                    [r \in {x \in DOMAIN s.failures[a] : t - s.failures[a][x] <= falure_ttl}
                        |-> s.failures[a][r]]]
        live == [a \in {x \in DOMAIN kept : DOMAIN kept[x] # {}} |-> kept[a]]
    IN  {Out([s EXCEPT !.failures = live], "Ok",
             {a \in DOMAIN live : Cardinality(DOMAIN live[a]) >= failure_quorum})}

\* MetaStore::get_failures, called at clock second t; returns the set of the
\* addresses of the returned Vec
get_failures(s, falure_ttl, failure_quorum, t) ==
    LET kept == [a \in DOMAIN s.failures |->
                    [r \in {x \in DOMAIN s.failures[a] : t - s.failures[a][x] < falure_ttl}
                        |-> s.failures[a][r]]]
        live == [a \in {x \in DOMAIN kept : DOMAIN kept[x] # {}} |-> kept[a]]
    IN  {Out([s EXCEPT !.failures = live], "Ok",
             {a \in DOMAIN live : Cardinality(DOMAIN live[a]) >= failure_quorum})}

\* a variant of add_proxy that stores the supplied nodes over the known ones
add_proxy_overwriting(s, proxy_address, nodes) ==
    IF Len(proxy_address) # 2 THEN {Out(s, "InvalidProxyAddress", None)}
    ELSE LET s1 == bump_global_epoch(s)
         IN  {Out([s1 EXCEPT
                      !.all_proxies =
                          [a \in (DOMAIN s.all_proxies) \cup {proxy_address} |->
                              IF a = proxy_address THEN nodes ELSE s.all_proxies[a]],
                      !.failed_proxies = @ \ {proxy_address},
                      !.failures = MapRemove(@, proxy_address)], "Ok", None)}

\* MetaStore::add_proxy
add_proxy(s, proxy_address, nodes) ==
    IF Len(proxy_address) # 2 THEN {Out(s, "InvalidProxyAddress", None)}
    ELSE LET s1 == bump_global_epoch(s)
         IN  {Out([s1 EXCEPT
                      !.all_proxies =
                          [a \in (DOMAIN s.all_proxies) \cup {proxy_address} |->
                              IF a \in DOMAIN s.all_proxies THEN s.all_proxies[a] ELSE nodes],
                      !.failed_proxies = @ \ {proxy_address},
                      !.failures = MapRemove(@, proxy_address)], "Ok", None)}

\* a variant of cluster_exists that never sees the cluster
cluster_never_exists(s) == FALSE

\* self.cluster.is_some() of add_cluster (line 415)
cluster_exists(s) == IsSome(s.cluster)

\* MetaStore::add_cluster
add_cluster(s, db_name, node_num) ==
    IF ~ValidName(db_name) THEN {Out(s, "InvalidClusterName", None)}
    ELSE IF cluster_exists(s) THEN {Out(s, "OnlySupportOneCluster", None)}
    ELSE IF node_num % 4 # 0 THEN {Out(s, "InvalidNodeNum", None)}
    ELSE IF node_num \div 2 = 0 THEN {Out(s, "InvalidNodeNum", None)}
    ELSE {IF c.err # "Ok" THEN Out(s, c.err, None)
          ELSE Out(bump_global_epoch(
                      [s EXCEPT !.cluster =
                          Some([name |-> db_name,
                                chunks |-> proxy_resource_to_chunk_store(c.pairs, TRUE)])]),
                   "Ok", None) :
          c \in consume_proxy(s, node_num \div 2)}

\* a variant of remove_cluster that forgets the failure reports as well
remove_cluster_with_reports(s, db_name) ==
    IF ~ValidName(db_name) THEN {Out(s, "InvalidClusterName", None)}
    ELSE IF IsNone(s.cluster) THEN {Out(s, "ClusterNotFound", None)}
    ELSE IF s.cluster[1].name # db_name THEN {Out(s, "ClusterNotFound", None)}
    ELSE {Out(bump_global_epoch([s EXCEPT !.cluster = None, !.failures = <<>>]), "Ok", None)}

\* MetaStore::remove_cluster
remove_cluster(s, db_name) ==
    IF ~ValidName(db_name) THEN {Out(s, "InvalidClusterName", None)}
    ELSE IF IsNone(s.cluster) THEN {Out(s, "ClusterNotFound", None)}
    ELSE IF s.cluster[1].name # db_name THEN {Out(s, "ClusterNotFound", None)}
    ELSE {Out(bump_global_epoch([s EXCEPT !.cluster = None]), "Ok", None)}

\* a variant of auto_add_nodes that returns the first num nodes of the cluster
auto_add_nodes_returning_first(s, db_name, num_opt) ==
    IF ~ValidName(db_name) THEN {Out(s, "InvalidClusterName", None)}
    ELSE IF IsNone(s.cluster) THEN {Out(s, "ClusterNotFound", None)}
    ELSE IF s.cluster[1].name # db_name THEN {Out(s, "ClusterNotFound", None)}
    ELSE LET existing_node_num == Len(s.cluster[1].chunks) * 4
             num == IF IsNone(num_opt) THEN existing_node_num ELSE num_opt[1]
         IN  IF num % 4 # 0 THEN {Out(s, "InvalidNodeNum", None)}
             ELSE IF num \div 2 = 0 THEN {Out(s, "InvalidNodeNum", None)}
             ELSE {IF c.err # "Ok" THEN Out(s, c.err, None)
                   ELSE LET s1 == [s EXCEPT !.cluster[1].chunks =
                                      @ \o proxy_resource_to_chunk_store(c.pairs, FALSE)]
                            nodes == get_cluster_nodes(s1)
                        IN  Out(bump_global_epoch(s1), "Ok", SubSeq(nodes, 1, num)) :
                   c \in consume_proxy(s, num \div 2)}

\* MetaStore::auto_add_nodes; num is an Option
auto_add_nodes(s, db_name, num_opt) ==
    IF ~ValidName(db_name) THEN {Out(s, "InvalidClusterName", None)}
    ELSE IF IsNone(s.cluster) THEN {Out(s, "ClusterNotFound", None)}
    ELSE IF s.cluster[1].name # db_name THEN {Out(s, "ClusterNotFound", None)}
    ELSE LET existing_node_num == Len(s.cluster[1].chunks) * 4
             num == IF IsNone(num_opt) THEN existing_node_num ELSE num_opt[1]
         IN  IF num % 4 # 0 THEN {Out(s, "InvalidNodeNum", None)}
             ELSE IF num \div 2 = 0 THEN {Out(s, "InvalidNodeNum", None)}
             ELSE {IF c.err # "Ok" THEN Out(s, c.err, None)
                   ELSE LET s1 == [s EXCEPT !.cluster[1].chunks =
                                      @ \o proxy_resource_to_chunk_store(c.pairs, FALSE)]
                            nodes == get_cluster_nodes(s1)
                        IN  Out(bump_global_epoch(s1), "Ok",
                                SubSeq(nodes, Len(nodes) - num + 1, Len(nodes))) :
                   c \in consume_proxy(s, num \div 2)}

\* a variant of remove_proxy that leaves the failure reports of the proxy
remove_proxy_keeping_failures(s, proxy_address) ==
    IF InUse(s, proxy_address) THEN {Out(s, "InUse", None)}
    ELSE {Out(bump_global_epoch(
                 [s EXCEPT !.all_proxies = MapRemove(@, proxy_address),
                           !.failed_proxies = @ \ {proxy_address}]), "Ok", None)}

\* a variant of remove_proxy that bumps the epoch before the InUse test
remove_proxy_eager(s, proxy_address) ==
    IF InUse(s, proxy_address) THEN {Out(bump_global_epoch(s), "InUse", None)}
    ELSE {Out(bump_global_epoch(
                 [s EXCEPT !.all_proxies = MapRemove(@, proxy_address),
                           !.failed_proxies = @ \ {proxy_address},
                           !.failures = MapRemove(@, proxy_address)]), "Ok", None)}

\* MetaStore::remove_proxy
remove_proxy(s, proxy_address) ==
    IF InUse(s, proxy_address) THEN {Out(s, "InUse", None)}
    ELSE {Out(bump_global_epoch(
                 [s EXCEPT !.all_proxies = MapRemove(@, proxy_address),
                           !.failed_proxies = @ \ {proxy_address},
                           !.failures = MapRemove(@, proxy_address)]), "Ok", None)}

\* a variant of migrate_slots that plans with the epoch before the bump
migrate_slots_with_old_epoch(s, db_name) ==
    IF ~ValidName(db_name) THEN {Out(s, "InvalidClusterName", None)}
    ELSE IF IsNone(s.cluster) THEN {Out(s, "ClusterNotFound", None)}
    ELSE IF db_name # s.cluster[1].name THEN {Out(s, "ClusterNotFound", None)}
    ELSE IF running_migration(s.cluster[1].chunks) THEN {Out(s, "MigrationRunning", None)}
    ELSE LET r == remove_slots_from_src(s.cluster[1].chunks, s.global_epoch)
         IN  {Out(bump_global_epoch(
                     [s EXCEPT !.cluster[1].chunks = assign_dst_slots(r.chunks, r.migration_slots)]),
                  "Ok", None)}

\* a variant of migrate_slots that returns before the bump when nothing is planned
migrate_slots_when_planned(s, db_name) ==
    IF ~ValidName(db_name) THEN {Out(s, "InvalidClusterName", None)}
    ELSE IF IsNone(s.cluster) THEN {Out(s, "ClusterNotFound", None)}
    ELSE IF db_name # s.cluster[1].name THEN {Out(s, "ClusterNotFound", None)}
    ELSE IF running_migration(s.cluster[1].chunks) THEN {Out(s, "MigrationRunning", None)}
    ELSE LET new_epoch == s.global_epoch + 1
             r == remove_slots_from_src(s.cluster[1].chunks, new_epoch)
         IN  IF r.migration_slots = <<>> THEN {Out(s, "Ok", None)}
             ELSE
             {Out(bump_global_epoch(
                     [s EXCEPT !.cluster[1].chunks = assign_dst_slots(r.chunks, r.migration_slots)]),
                  "Ok", None)}

\* MetaStore::migrate_slots
migrate_slots(s, db_name) ==
    IF ~ValidName(db_name) THEN {Out(s, "InvalidClusterName", None)}
    ELSE IF IsNone(s.cluster) THEN {Out(s, "ClusterNotFound", None)}
    ELSE IF db_name # s.cluster[1].name THEN {Out(s, "ClusterNotFound", None)}
    ELSE IF running_migration(s.cluster[1].chunks) THEN {Out(s, "MigrationRunning", None)}
    ELSE LET new_epoch == s.global_epoch + 1
             r == remove_slots_from_src(s.cluster[1].chunks, new_epoch)
         IN  {Out(bump_global_epoch(
                     [s EXCEPT !.cluster[1].chunks = assign_dst_slots(r.chunks, r.migration_slots)]),
                  "Ok", None)}


\* the positions <<chunk, part, entry>> (1-based) of the migration entries
Positions(chunks) ==
    UNION {{<<c, j, n>> : n \in 1..Len(chunks[c].migrating_slots[j])} :
             <<c, j>> \in (1..Len(chunks)) \X (1..CHUNK_PARTS)}

\* the first position of a set in iteration order (chunk, then part, then entry)
FirstPos(P) ==
    CHOOSE p \in P : \A q \in P :
        \/ p[1] < q[1]
        \/ p[1] = q[1] /\ p[2] < q[2]
        \/ p[1] = q[1] /\ p[2] = q[2] /\ p[3] <= q[3]

\* a variant of commit_migration that bumps the epoch before its tests
commit_migration_eager(s, task) ==
    IF IsNone(s.cluster) THEN {Out(bump_global_epoch(s), "ClusterNotFound", None)}
    ELSE IF task.slot_range.tag.kind = "None" THEN {Out(bump_global_epoch(s), "InvalidMigrationTask", None)}
    ELSE
    LET chunks == s.cluster[1].chunks
        task_epoch == task.slot_range.tag.meta.epoch
        range_list == task.slot_range.range_list
        Entry(p) == chunks[p[1]].migrating_slots[p[2]][p[3]]
        srcs == {p \in Positions(chunks) :
                    /\ Entry(p).range_list = range_list
                    /\ Entry(p).meta.epoch = task_epoch
                    /\ Entry(p).is_migrating}
        dsts == {p \in Positions(chunks) :
                    /\ Entry(p).range_list = range_list
                    /\ Entry(p).meta.epoch = task_epoch
                    /\ ~Entry(p).is_migrating}
    IN  IF srcs = {} \/ dsts = {} THEN {Out(bump_global_epoch(s), "MigrationTaskNotFound", None)}
        ELSE
        LET meta == [epoch |-> task_epoch,
                     src_chunk_index |-> FirstPos(srcs)[1] - 1,
                     src_chunk_part |-> FirstPos(srcs)[2] - 1,
                     dst_chunk_index |-> FirstPos(dsts)[1] - 1,
                     dst_chunk_part |-> FirstPos(dsts)[2] - 1]
            \* lines 807-815
            retained ==
                [c \in 1..Len(chunks) |->
                    [chunks[c] EXCEPT !.migrating_slots =
                        [j \in 1..CHUNK_PARTS |->
                            SelectSeq(chunks[c].migrating_slots[j],
                                      LAMBDA e : ~(/\ e.is_migrating
                                                   /\ e.range_list = range_list
                                                   /\ e.meta = meta))]]]
            \* lines 817-850
            found == {p \in Positions(retained) :
                        LET e == retained[p[1]].migrating_slots[p[2]][p[3]]
                        IN  ~e.is_migrating /\ e.meta = meta /\ e.range_list = range_list}
            committed ==
                IF found = {} THEN retained
                ELSE LET p == FirstPos(found)
                         removed == retained[p[1]].migrating_slots[p[2]][p[3]].range_list
                     IN  [retained EXCEPT
                            ![p[1]].migrating_slots[p[2]] = RemoveAt(@, p[3]),
                            ![p[1]].stable_slots[p[2]] =
                                IF IsSome(@) THEN Some(merge_another(@[1], removed))
                                ELSE Some(removed)]
        IN  {Out(bump_global_epoch([s EXCEPT !.cluster[1].chunks = committed]), "Ok", None)}

\* a variant of commit_migration that finds a task by its Migrating tag only
commit_migration_by_migrating_tag(s, task) ==
    IF IsNone(s.cluster) THEN {Out(s, "ClusterNotFound", None)}
    ELSE IF task.slot_range.tag.kind = "None" THEN {Out(s, "InvalidMigrationTask", None)}
    ELSE IF task.slot_range.tag.kind = "Importing" THEN {Out(s, "MigrationTaskNotFound", None)}
    ELSE
    LET chunks == s.cluster[1].chunks
        task_epoch == task.slot_range.tag.meta.epoch
        range_list == task.slot_range.range_list
        Entry(p) == chunks[p[1]].migrating_slots[p[2]][p[3]]
        srcs == {p \in Positions(chunks) :
                    /\ Entry(p).range_list = range_list
                    /\ Entry(p).meta.epoch = task_epoch
                    /\ Entry(p).is_migrating}
        dsts == {p \in Positions(chunks) :
                    /\ Entry(p).range_list = range_list
                    /\ Entry(p).meta.epoch = task_epoch
                    /\ ~Entry(p).is_migrating}
    IN  IF srcs = {} \/ dsts = {} THEN {Out(s, "MigrationTaskNotFound", None)}
        ELSE
        LET meta == [epoch |-> task_epoch,
                     src_chunk_index |-> FirstPos(srcs)[1] - 1,
                     src_chunk_part |-> FirstPos(srcs)[2] - 1,
                     dst_chunk_index |-> FirstPos(dsts)[1] - 1,
                     dst_chunk_part |-> FirstPos(dsts)[2] - 1]
            \* lines 807-815
            retained ==
                [c \in 1..Len(chunks) |->
                    [chunks[c] EXCEPT !.migrating_slots =
                        [j \in 1..CHUNK_PARTS |->
                            SelectSeq(chunks[c].migrating_slots[j],
                                      LAMBDA e : ~(/\ e.is_migrating
                                                   /\ e.range_list = range_list
                                                   /\ e.meta = meta))]]]
            \* lines 817-850
            found == {p \in Positions(retained) :
                        LET e == retained[p[1]].migrating_slots[p[2]][p[3]]
                        IN  ~e.is_migrating /\ e.meta = meta /\ e.range_list = range_list}
            committed ==
                IF found = {} THEN retained
                ELSE LET p == FirstPos(found)
                         removed == retained[p[1]].migrating_slots[p[2]][p[3]].range_list
                     IN  [retained EXCEPT
                            ![p[1]].migrating_slots[p[2]] = RemoveAt(@, p[3]),
                            ![p[1]].stable_slots[p[2]] =
                                IF IsSome(@) THEN Some(merge_another(@[1], removed))
                                ELSE Some(removed)]
        IN  {Out(bump_global_epoch([s EXCEPT !.cluster[1].chunks = committed]), "Ok", None)}

\* a variant of commit_migration that replaces the stable slots of the
\* destination by the committed ranges
commit_migration_replacing_stable(s, task) ==
    IF IsNone(s.cluster) THEN {Out(s, "ClusterNotFound", None)}
    ELSE IF task.slot_range.tag.kind = "None" THEN {Out(s, "InvalidMigrationTask", None)}
    ELSE
    LET chunks == s.cluster[1].chunks
        task_epoch == task.slot_range.tag.meta.epoch
        range_list == task.slot_range.range_list
        Entry(p) == chunks[p[1]].migrating_slots[p[2]][p[3]]
        srcs == {p \in Positions(chunks) :
                    /\ Entry(p).range_list = range_list
                    /\ Entry(p).meta.epoch = task_epoch
                    /\ Entry(p).is_migrating}
        dsts == {p \in Positions(chunks) :
                    /\ Entry(p).range_list = range_list
                    /\ Entry(p).meta.epoch = task_epoch
                    /\ ~Entry(p).is_migrating}
    IN  IF srcs = {} \/ dsts = {} THEN {Out(s, "MigrationTaskNotFound", None)}
        ELSE
        LET meta == [epoch |-> task_epoch,
                     src_chunk_index |-> FirstPos(srcs)[1] - 1,
                     src_chunk_part |-> FirstPos(srcs)[2] - 1,
                     dst_chunk_index |-> FirstPos(dsts)[1] - 1,
                     dst_chunk_part |-> FirstPos(dsts)[2] - 1]
            \* lines 807-815
            retained ==
                [c \in 1..Len(chunks) |->
                    [chunks[c] EXCEPT !.migrating_slots =
                        [j \in 1..CHUNK_PARTS |->
                            SelectSeq(chunks[c].migrating_slots[j],
                                      LAMBDA e : ~(/\ e.is_migrating
                                                   /\ e.range_list = range_list
                                                   /\ e.meta = meta))]]]
            \* lines 817-850
            found == {p \in Positions(retained) :
                        LET e == retained[p[1]].migrating_slots[p[2]][p[3]]
                        IN  ~e.is_migrating /\ e.meta = meta /\ e.range_list = range_list}
            committed ==
                IF found = {} THEN retained
                ELSE LET p == FirstPos(found)
                         removed == retained[p[1]].migrating_slots[p[2]][p[3]].range_list
                     IN  [retained EXCEPT
                            ![p[1]].migrating_slots[p[2]] = RemoveAt(@, p[3]),
                            ![p[1]].stable_slots[p[2]] =
                                Some(removed)]
        IN  {Out(bump_global_epoch([s EXCEPT !.cluster[1].chunks = committed]), "Ok", None)}

\* a variant of commit_migration that looks the cluster up by the name in the task
commit_migration_of_named_cluster(s, task) ==
    IF IsNone(s.cluster) THEN {Out(s, "ClusterNotFound", None)}
    ELSE IF task.db_name # s.cluster[1].name THEN {Out(s, "ClusterNotFound", None)}
    ELSE IF task.slot_range.tag.kind = "None" THEN {Out(s, "InvalidMigrationTask", None)}
    ELSE
    LET chunks == s.cluster[1].chunks
        task_epoch == task.slot_range.tag.meta.epoch
        range_list == task.slot_range.range_list
        Entry(p) == chunks[p[1]].migrating_slots[p[2]][p[3]]
        srcs == {p \in Positions(chunks) :
                    /\ Entry(p).range_list = range_list
                    /\ Entry(p).meta.epoch = task_epoch
                    /\ Entry(p).is_migrating}
        dsts == {p \in Positions(chunks) :
                    /\ Entry(p).range_list = range_list
                    /\ Entry(p).meta.epoch = task_epoch
                    /\ ~Entry(p).is_migrating}
    IN  IF srcs = {} \/ dsts = {} THEN {Out(s, "MigrationTaskNotFound", None)}
        ELSE
        LET meta == [epoch |-> task_epoch,
                     src_chunk_index |-> FirstPos(srcs)[1] - 1,
                     src_chunk_part |-> FirstPos(srcs)[2] - 1,
                     dst_chunk_index |-> FirstPos(dsts)[1] - 1,
                     dst_chunk_part |-> FirstPos(dsts)[2] - 1]
            \* lines 807-815
            retained ==
                [c \in 1..Len(chunks) |->
                    [chunks[c] EXCEPT !.migrating_slots =
                        [j \in 1..CHUNK_PARTS |->
                            SelectSeq(chunks[c].migrating_slots[j],
                                      LAMBDA e : ~(/\ e.is_migrating
                                                   /\ e.range_list = range_list
                                                   /\ e.meta = meta))]]]
            \* lines 817-850
            found == {p \in Positions(retained) :
                        LET e == retained[p[1]].migrating_slots[p[2]][p[3]]
                        IN  ~e.is_migrating /\ e.meta = meta /\ e.range_list = range_list}
            committed ==
                IF found = {} THEN retained
                ELSE LET p == FirstPos(found)
                         removed == retained[p[1]].migrating_slots[p[2]][p[3]].range_list
                     IN  [retained EXCEPT
                            ![p[1]].migrating_slots[p[2]] = RemoveAt(@, p[3]),
                            ![p[1]].stable_slots[p[2]] =
                                IF IsSome(@) THEN Some(merge_another(@[1], removed))
                                ELSE Some(removed)]
        IN  {Out(bump_global_epoch([s EXCEPT !.cluster[1].chunks = committed]), "Ok", None)}

\* MetaStore::commit_migration; task = [db_name, slot_range], slot_range =
\* [range_list, tag], tag = [kind, meta]
commit_migration(s, task) ==
    IF IsNone(s.cluster) THEN {Out(s, "ClusterNotFound", None)}
    ELSE IF task.slot_range.tag.kind = "None" THEN {Out(s, "InvalidMigrationTask", None)}
    ELSE
    LET chunks == s.cluster[1].chunks
        task_epoch == task.slot_range.tag.meta.epoch
        range_list == task.slot_range.range_list
        Entry(p) == chunks[p[1]].migrating_slots[p[2]][p[3]]
        srcs == {p \in Positions(chunks) :
                    /\ Entry(p).range_list = range_list
                    /\ Entry(p).meta.epoch = task_epoch
                    /\ Entry(p).is_migrating}
        dsts == {p \in Positions(chunks) :
                    /\ Entry(p).range_list = range_list
                    /\ Entry(p).meta.epoch = task_epoch
                    /\ ~Entry(p).is_migrating}
    IN  IF srcs = {} \/ dsts = {} THEN {Out(s, "MigrationTaskNotFound", None)}
        ELSE
        LET meta == [epoch |-> task_epoch,
                     src_chunk_index |-> FirstPos(srcs)[1] - 1,
                     src_chunk_part |-> FirstPos(srcs)[2] - 1,
                     dst_chunk_index |-> FirstPos(dsts)[1] - 1,
                     dst_chunk_part |-> FirstPos(dsts)[2] - 1]
            \* lines 807-815
            retained ==
                [c \in 1..Len(chunks) |->
                    [chunks[c] EXCEPT !.migrating_slots =
                        [j \in 1..CHUNK_PARTS |->
                            SelectSeq(chunks[c].migrating_slots[j],
                                      LAMBDA e : ~(/\ e.is_migrating
                                                   /\ e.range_list = range_list
                                                   /\ e.meta = meta))]]]
            \* lines 817-850
            found == {p \in Positions(retained) :
                        LET e == retained[p[1]].migrating_slots[p[2]][p[3]]
                        IN  ~e.is_migrating /\ e.meta = meta /\ e.range_list = range_list}
            committed ==
                IF found = {} THEN retained
                ELSE LET p == FirstPos(found)
                         removed == retained[p[1]].migrating_slots[p[2]][p[3]].range_list
                     IN  [retained EXCEPT
                            ![p[1]].migrating_slots[p[2]] = RemoveAt(@, p[3]),
                            ![p[1]].stable_slots[p[2]] =
                                IF IsSome(@) THEN Some(merge_another(@[1], removed))
                                ELSE Some(removed)]
        IN  {Out(bump_global_epoch([s EXCEPT !.cluster[1].chunks = committed]), "Ok", None)}

\* the first chunk (1-based) holding the proxy, and its part (0-based), as the
\* loops of takeover_master and replace_failed_proxy find it; <<0, 0>> if none
ChunkOfProxy(chunks, addr) ==
    LET hits == {c \in 1..Len(chunks) :
                    chunks[c].proxy_addresses[1] = addr \/ chunks[c].proxy_addresses[2] = addr}
    IN  IF hits = {} THEN <<0, 0>>
        ELSE LET c == CHOOSE x \in hits : \A y \in hits : x <= y
             IN  <<c, IF chunks[c].proxy_addresses[1] = addr THEN 0 ELSE 1>>

\* a variant of takeover_master that leaves the role position alone
takeover_nothing(s, failed_proxy_address) == bump_global_epoch(s)

\* MetaStore::takeover_master (the cluster exists when it is called)
takeover_master(s, failed_proxy_address) ==
    LET s1 == bump_global_epoch(s)
        at == ChunkOfProxy(s.cluster[1].chunks, failed_proxy_address)
    IN  IF at[1] = 0 THEN s1
        ELSE [s1 EXCEPT !.cluster[1].chunks[at[1]].role_position =
                            IF at[2] = 0 THEN "SecondChunkMaster" ELSE "FirstChunkMaster"]

\* MetaStore::consume_new_proxy: the possible outcomes
consume_new_proxy(s, failed_proxy_address) ==
    LET free_hosts == {HostOf(a) : a \in get_free_proxies(s)}
        link_table == build_link_table(s)
        failed_proxy_host == HostOf(failed_proxy_address)
    IN  IF failed_proxy_host \notin DOMAIN link_table THEN {[err |-> "Panic"]}
        ELSE LET link_count_table == link_table[failed_proxy_host]
                 cand == {h \in DOMAIN link_count_table : h \in free_hosts}
                 best == {h \in cand : \A g \in cand : link_count_table[h] <= link_count_table[g]}
             IN  IF cand = {} THEN {[err |-> "NoAvailableResource"]}
                 ELSE {[err |-> "Ok",
                        proxy |-> ProxyResource(a, s.all_proxies[a])] :
                       a \in {x \in get_free_proxies(s) : HostOf(x) \in best}}

\* a variant of replace_failed_proxy that does not record an unused proxy as failed
replace_failed_proxy_unrecorded(s, failed_proxy_address) ==
    IF failed_proxy_address \notin DOMAIN s.all_proxies THEN {Out(s, "HostNotFound", None)}
    ELSE IF ~InUse(s, failed_proxy_address) THEN {Out(s, "NotInUse", None)}
    ELSE LET s1 == takeover_master(s, failed_proxy_address)
             at == ChunkOfProxy(s1.cluster[1].chunks, failed_proxy_address)
         IN  {IF n.err # "Ok" THEN Out(s1, n.err, None)
              ELSE LET s2 == [s1 EXCEPT
                                !.cluster[1].chunks[at[1]].proxy_addresses[at[2] + 1] =
                                    n.proxy.proxy_address,
                                !.cluster[1].chunks[at[1]].node_addresses[2 * at[2] + 1] =
                                    n.proxy.node_addresses[1],
                                !.cluster[1].chunks[at[1]].node_addresses[2 * at[2] + 2] =
                                    n.proxy.node_addresses[2],
                                !.failed_proxies = @ \cup {failed_proxy_address}]
                       s3 == bump_global_epoch(s2)
                   IN  Out(s3, "Ok", get_proxy_by_address(s3, n.proxy.proxy_address)) :
              n \in consume_new_proxy(s1, failed_proxy_address)}

\* a variant of replace_failed_proxy that leaves the node addresses of the chunk
replace_failed_proxy_keeping_nodes(s, failed_proxy_address) ==
    IF failed_proxy_address \notin DOMAIN s.all_proxies THEN {Out(s, "HostNotFound", None)}
    ELSE IF ~InUse(s, failed_proxy_address)
    THEN {Out([s EXCEPT !.failed_proxies = @ \cup {failed_proxy_address}], "NotInUse", None)}
    ELSE LET s1 == takeover_master(s, failed_proxy_address)
             at == ChunkOfProxy(s1.cluster[1].chunks, failed_proxy_address)
         IN  {IF n.err # "Ok" THEN Out(s1, n.err, None)
              ELSE LET s2 == [s1 EXCEPT
                                !.cluster[1].chunks[at[1]].proxy_addresses[at[2] + 1] =
                                    n.proxy.proxy_address,
                                !.failed_proxies = @ \cup {failed_proxy_address}]
                       s3 == bump_global_epoch(s2)
                   IN  Out(s3, "Ok", get_proxy_by_address(s3, n.proxy.proxy_address)) :
              n \in consume_new_proxy(s1, failed_proxy_address)}

\* MetaStore::replace_failed_proxy
replace_failed_proxy(s, failed_proxy_address) ==
    IF failed_proxy_address \notin DOMAIN s.all_proxies THEN {Out(s, "HostNotFound", None)}
    ELSE IF ~InUse(s, failed_proxy_address)
    THEN {Out([s EXCEPT !.failed_proxies = @ \cup {failed_proxy_address}], "NotInUse", None)}
    ELSE LET s1 == takeover_master(s, failed_proxy_address)
             at == ChunkOfProxy(s1.cluster[1].chunks, failed_proxy_address)
         IN  {IF n.err # "Ok" THEN Out(s1, n.err, None)
              ELSE LET s2 == [s1 EXCEPT
                                !.cluster[1].chunks[at[1]].proxy_addresses[at[2] + 1] =
                                    n.proxy.proxy_address,
                                !.cluster[1].chunks[at[1]].node_addresses[2 * at[2] + 1] =
                                    n.proxy.node_addresses[1],
                                !.cluster[1].chunks[at[1]].node_addresses[2 * at[2] + 2] =
                                    n.proxy.node_addresses[2],
                                !.failed_proxies = @ \cup {failed_proxy_address}]
                       s3 == bump_global_epoch(s2)
                   IN  Out(s3, "Ok", get_proxy_by_address(s3, n.proxy.proxy_address)) :
              n \in consume_new_proxy(s1, failed_proxy_address)}


-----------------------------------------------------------------------------
(* The state machine: one action per operation of the facade boundary.      *)
(* op names the last call and res is its result.                            *)

\* the store held by the variables
S == Store(global_epoch, cluster, all_proxies, failed_proxies, failures)

\* the call `name(args)` ends with outcome o
Apply(o, name, args) ==
    /\ global_epoch' = o.store.global_epoch
    /\ cluster' = o.store.cluster
    /\ all_proxies' = o.store.all_proxies
    /\ failed_proxies' = o.store.failed_proxies
    /\ failures' = o.store.failures
    /\ op' = name
    /\ res' = [err |-> o.err, ret |-> o.ret]
    /\ UNCHANGED <<now, pair>>

\* the store after add_testing_proxies-like registration of a pool of proxies
\* (one add_proxy per proxy, lines 1258-1269)
PoolStore(pool) ==
    Store(Cardinality(pool), None, [p \in pool |-> NodesOf(p)], {}, <<>>)

\* the pools the runs start from: 2 hosts with 2 proxies, and 3 proxies on
\* one host with 1 proxy on another
Pools ==
    { {ProxyAddr(h, i) : h \in {"h1", "h2"}, i \in 1..2},
      {ProxyAddr("h1", 1), ProxyAddr("h1", 2), ProxyAddr("h1", 3), ProxyAddr("h2", 1)} }

\* the pool of the runs of the cluster operations: 3 hosts with 2 proxies
ClusterPool == {ProxyAddr(h, i) : h \in {"h1", "h2", "h3"}, i \in 1..2}

Init ==
    /\ \E pool \in Pools :
          /\ global_epoch = PoolStore(pool).global_epoch
          /\ all_proxies = PoolStore(pool).all_proxies
    /\ cluster = None
    /\ failed_proxies = {}
    /\ failures = <<>>
    /\ now = 0
    /\ op = "init"
    /\ res = [err |-> "Ok", ret |-> None]
    /\ pair = None

NodeNums == {0, 2} \cup {4 * n : n \in 1..MaxChunkReq}

\* the arguments the calls are made with
AddrArgs == AllProxyAddrs
AddProxyArgs == {<<a, NodesOf(a)>> : a \in AllProxyAddrs} \cup {<<BadAddr, NodeAddrs("h1", 1)>>}
AddClusterArgs ==
    {<<"test_db", n>> : n \in NodeNums} \cup {<<"another_db", 4>>, <<InvalidName, 4>>}
NameArgs == {"test_db", "another_db"}
AutoAddNodesArgs ==
    {<<"test_db", num>> : num \in {None} \cup {Some(n) : n \in NodeNums}}
        \cup {<<"another_db", None>>}
GetFailuresArgs == {<<0, 1>>, <<MaxClock + 1, 1>>, <<MaxClock + 1, 2>>}

\* the tasks commit_migration is called with: every tagged slot range of the
\* projection (as the proxies report them) and the stable ones (tag None)
Tasks ==
    LET nodes == get_cluster_nodes(S)
        ranges == UNION {{nodes[k].slots[n] : n \in 1..Len(nodes[k].slots)} :
                           k \in 1..Len(nodes)}
    IN  {[db_name |-> "test_db", slot_range |-> sr] : sr \in ranges}

\* tasks of an earlier plan: the tagged slot ranges with an older epoch
StaleTasks ==
    {[t EXCEPT !.slot_range.tag.meta.epoch = @ - 1] :
        t \in {x \in Tasks : x.slot_range.tag.kind # "None"}}

\* tasks that do not come from the projection: an untagged range and a tagged
\* range that no plan has made
ForeignTasks ==
    {[db_name |-> "test_db",
      slot_range |-> [range_list |-> from_single_range(<<0, SLOT_NUM - 1>>),
                      tag |-> [kind |-> "None"]]],
     [db_name |-> "test_db",
      slot_range |-> [range_list |-> from_single_range(<<0, 0>>),
                      tag |-> [kind |-> "Migrating",
                               meta |-> [epoch |-> 1,
                                         src_proxy_address |-> ProxyAddr("h1", 1),
                                         src_node_address |-> NodeAddrs("h1", 1)[1],
                                         dst_proxy_address |-> ProxyAddr("h2", 1),
                                         dst_node_address |-> NodeAddrs("h2", 1)[1]]]]]}

Tick ==
    /\ now < MaxClock
    /\ now' = now + 1
    /\ UNCHANGED <<global_epoch, cluster, all_proxies, failed_proxies, failures, op, res, pair>>

AddProxy(limit) ==
    /\ global_epoch < limit
    /\ \E a \in AddProxyArgs :
          \E o \in add_proxy(S, a[1], a[2]) : Apply(o, "add_proxy", a)

RemoveProxy(limit) ==
    /\ global_epoch < limit
    /\ \E addr \in AddrArgs :
          \E o \in remove_proxy(S, addr) : Apply(o, "remove_proxy", <<addr>>)

AddFailure(limit) ==
    /\ global_epoch < limit
    /\ \E addr \in AddrArgs, r \in Reporters :
          \E o \in add_failure(S, addr, r, now) : Apply(o, "add_failure", <<addr, r>>)

GetFailures ==
    \E a \in GetFailuresArgs :
        \E o \in get_failures(S, a[1], a[2], now) : Apply(o, "get_failures", a)

AddCluster(limit, args) ==
    /\ global_epoch < limit
    /\ \E a \in args :
          \E o \in add_cluster(S, a[1], a[2]) : Apply(o, "add_cluster", a)

RemoveCluster(limit) ==
    /\ global_epoch < limit
    /\ \E name \in NameArgs :
          \E o \in remove_cluster(S, name) : Apply(o, "remove_cluster", <<name>>)

AutoAddNodes(limit, args) ==
    /\ global_epoch < limit
    /\ \E a \in args :
          \E o \in auto_add_nodes(S, a[1], a[2]) : Apply(o, "auto_add_nodes", a)

MigrateSlots(limit, names) ==
    /\ global_epoch < limit
    /\ \E name \in names :
          \E o \in migrate_slots(S, name) : Apply(o, "migrate_slots", <<name>>)

CommitMigration(limit, tasks) ==
    /\ global_epoch < limit
    /\ \E task \in tasks :
          \E o \in commit_migration(S, task) : Apply(o, "commit_migration", <<task>>)

ReplaceFailedProxy(limit, addrs) ==
    /\ global_epoch < limit
    /\ \E addr \in addrs :
          \E o \in replace_failed_proxy(S, addr) : Apply(o, "replace_failed_proxy", <<addr>>)

Next ==
    \/ Tick
    \/ AddProxy(MaxEpoch)
    \/ RemoveProxy(MaxEpoch)
    \/ AddFailure(MaxEpoch)
    \/ GetFailures
    \/ AddCluster(MaxEpoch, AddClusterArgs)
    \/ RemoveCluster(MaxEpoch)
    \/ AutoAddNodes(MaxEpoch, AutoAddNodesArgs)
    \/ MigrateSlots(MaxEpoch, NameArgs)
    \/ CommitMigration(MaxEpoch + 1, Tasks \cup StaleTasks \cup ForeignTasks)
    \/ ReplaceFailedProxy(MaxEpoch, AddrArgs)

Spec == Init /\ [][Next]_vars

\* some chunk part has a migration entry
HasEntries(s) ==
    \E c \in 1..Len(ChunksOf(s)), j \in 1..CHUNK_PARTS :
        ChunksOf(s)[c].migrating_slots[j] # <<>>

\* some chunk part has no stable slots
HasEmptyPart(s) ==
    \E c \in 1..Len(ChunksOf(s)), j \in 1..CHUNK_PARTS :
        IsNone(ChunksOf(s)[c].stable_slots[j])

\* the tasks test_scaling commits: the slot ranges tagged Migrating
MigratingTasks == {t \in Tasks : t.slot_range.tag.kind = "Migrating"}

\* The scale-up driver of the tests (init_migration_test_store, then
\* test_scaling any number of times): add_cluster on a fresh pool; then
\* auto_add_nodes, migrate_slots and commit_migration of every Migrating
\* slot range, in any order.
InitScale ==
    /\ global_epoch = PoolStore(ClusterPool).global_epoch
    /\ all_proxies = PoolStore(ClusterPool).all_proxies
    /\ cluster = None
    /\ failed_proxies = {}
    /\ failures = <<>>
    /\ now = 0
    /\ op = "init"
    /\ res = [err |-> "Ok", ret |-> None]
    /\ pair = None

ScaleAddCluster ==
    /\ IsNone(cluster)
    /\ AddCluster(MaxScaleEpoch, {<<"test_db", 4 * n>> : n \in 1..MaxChunkReq})

ScaleAutoAddNodes ==
    /\ IsSome(cluster) /\ ~HasEntries(S) /\ ~HasEmptyPart(S)
    /\ AutoAddNodes(MaxScaleEpoch,
                    {<<"test_db", None>>} \cup {<<"test_db", Some(4 * n)>> : n \in 1..MaxChunkReq})

ScaleMigrateSlots ==
    /\ IsSome(cluster) /\ ~HasEntries(S) /\ HasEmptyPart(S)
    /\ MigrateSlots(MaxScaleEpoch, {"test_db"})

ScaleCommitMigration ==
    CommitMigration(MaxScaleEpoch, MigratingTasks)

NextScale ==
    \/ ScaleAddCluster
    \/ ScaleAutoAddNodes
    \/ ScaleMigrateSlots
    \/ ScaleCommitMigration

SpecScale == InitScale /\ [][NextScale]_vars

\* The cluster operations in any order, with failing proxies replaced, from
\* one store init_migration_test_store can return: the pool of 3 hosts with
\* 2 proxies and a cluster of one chunk on h1:7001 and h2:7001.
ClusterStart ==
    (CHOOSE o \in add_cluster(PoolStore(ClusterPool), "test_db", 4) :
        /\ o.err = "Ok"
        /\ o.store.cluster[1].chunks[1].proxy_addresses =
              <<ProxyAddr("h1", 1), ProxyAddr("h2", 1)>>).store

InitCluster ==
    /\ global_epoch = ClusterStart.global_epoch
    /\ cluster = ClusterStart.cluster
    /\ all_proxies = ClusterStart.all_proxies
    /\ failed_proxies = ClusterStart.failed_proxies
    /\ failures = ClusterStart.failures
    /\ now = 0
    /\ op = "add_cluster"
    /\ res = [err |-> "Ok", ret |-> None]
    /\ pair = None

NextCluster ==
    \/ AutoAddNodes(MaxClusterEpoch, {<<"test_db", Some(4)>>, <<"test_db", None>>})
    \/ MigrateSlots(MaxClusterEpoch, {"test_db"})
    \/ CommitMigration(MaxClusterEpoch, Tasks \cup StaleTasks)
    \/ ReplaceFailedProxy(MaxClusterEpoch, OccupiedProxies(S))

SpecCluster == InitCluster /\ [][NextCluster]_vars

\* The proxy pool and the failure reports, from the empty store: proxies are
\* registered (also again, with other node addresses), removed, reported by
\* two reporters and declared failed, while the clock advances.
PoolAddrs == {ProxyAddr("h1", 1), ProxyAddr("h2", 1)}
PoolReporters == {"r1", "r2"}

\* an address with two ':' (three parts)
LongAddr == <<"h1", 7001, 1>>

\* node addresses other than the ones the proxy was registered with first
OtherNodesOf(addr) == NodeAddrs(addr[1], addr[2] - 7000 + 1)

PoolAddProxyArgs ==
    {<<a, NodesOf(a)>> : a \in PoolAddrs} \cup {<<a, OtherNodesOf(a)>> : a \in PoolAddrs}
        \cup {<<BadAddr, NodeAddrs("h1", 1)>>, <<LongAddr, NodeAddrs("h1", 1)>>}

\* falure_ttl in seconds and failure_quorum
PoolGetFailuresArgs == (0..(MaxPoolClock + 1)) \X (1..2)

InitPool ==
    /\ global_epoch = DefaultStore.global_epoch
    /\ cluster = DefaultStore.cluster
    /\ all_proxies = DefaultStore.all_proxies
    /\ failed_proxies = DefaultStore.failed_proxies
    /\ failures = DefaultStore.failures
    /\ now = 0
    /\ op = "init"
    /\ res = [err |-> "Ok", ret |-> None]
    /\ pair = None

PoolTick ==
    /\ now < MaxPoolClock
    /\ now' = now + 1
    /\ UNCHANGED <<global_epoch, cluster, all_proxies, failed_proxies, failures, op, res, pair>>

PoolAddProxy ==
    /\ global_epoch < MaxPoolEpoch
    /\ \E a \in PoolAddProxyArgs :
          \E o \in add_proxy(S, a[1], a[2]) : Apply(o, "add_proxy", a)

PoolRemoveProxy ==
    /\ global_epoch < MaxPoolEpoch
    /\ \E addr \in PoolAddrs :
          \E o \in remove_proxy(S, addr) : Apply(o, "remove_proxy", <<addr>>)

PoolAddFailure ==
    /\ global_epoch < MaxPoolEpoch
    /\ \E addr \in PoolAddrs, r \in PoolReporters :
          \E o \in add_failure(S, addr, r, now) : Apply(o, "add_failure", <<addr, r>>)

PoolGetFailures ==
    \E a \in PoolGetFailuresArgs :
        \E o \in get_failures(S, a[1], a[2], now) : Apply(o, "get_failures", a)

NextPool ==
    \/ PoolTick
    \/ PoolAddProxy
    \/ PoolRemoveProxy
    \/ PoolAddFailure
    \/ PoolGetFailures
    \/ AddCluster(MaxPoolEpoch, {<<"test_db", 4>>})
    \/ ReplaceFailedProxy(MaxPoolEpoch, PoolAddrs)

SpecPool == InitPool /\ [][NextPool]_vars

\* A cluster that grows chunk by chunk. An operator registers the two proxies
\* of the next chunk (one on each of two hosts) and calls auto_add_nodes for
\* one chunk; after the third and after the sixth chunk migrate_slots is
\* called. The first plan is committed in any order before the cluster grows
\* on; once the second plan is made and the proxies of a seventh chunk are
\* registered, commit_migration, auto_add_nodes and migrate_slots are called
\* in any order.
GrowPool(port) == {ProxyAddr(h, port) : h \in {"h1", "h2"}}

GrowChunkCalls == <<"add_proxy", "add_proxy", "auto_add_nodes">>

GrowCommitCalls == [n \in 1..5 |-> "commit_migration"]

GrowPlan ==
    <<"add_cluster">> \o GrowChunkCalls \o GrowChunkCalls \o <<"migrate_slots">>
        \o GrowCommitCalls
        \o GrowChunkCalls \o GrowChunkCalls \o GrowChunkCalls \o <<"migrate_slots">>
        \o <<"add_proxy", "add_proxy">>

\* the store with the two proxies of the first chunk
GrowStart == PoolStore(GrowPool(1))

\* the call that is due: every successful call bumps the epoch by one
GrowDue ==
    LET n == global_epoch - GrowStart.global_epoch + 1
    IN  IF n \in 1..Len(GrowPlan) THEN {GrowPlan[n]}
        ELSE {"commit_migration", "auto_add_nodes", "migrate_slots"}

GrowLimit == GrowStart.global_epoch + Len(GrowPlan) + GrowSteps

InitGrow ==
    /\ global_epoch = GrowStart.global_epoch
    /\ cluster = GrowStart.cluster
    /\ all_proxies = GrowStart.all_proxies
    /\ failed_proxies = GrowStart.failed_proxies
    /\ failures = GrowStart.failures
    /\ now = 0
    /\ op = "add_proxy"
    /\ res = [err |-> "Ok", ret |-> None]
    /\ pair = None

GrowAddCluster ==
    /\ "add_cluster" \in GrowDue
    /\ AddCluster(GrowLimit, {<<"test_db", 4>>})

GrowAddProxy ==
    /\ "add_proxy" \in GrowDue
    /\ \E a \in GrowPool(Len(ChunksOf(S)) + 1) \ DOMAIN all_proxies :
          \E o \in add_proxy(S, a, NodesOf(a)) : Apply(o, "add_proxy", <<a, NodesOf(a)>>)

GrowAutoAddNodes ==
    /\ "auto_add_nodes" \in GrowDue
    /\ AutoAddNodes(GrowLimit, {<<"test_db", Some(4)>>})

GrowMigrateSlots ==
    /\ "migrate_slots" \in GrowDue
    /\ MigrateSlots(GrowLimit, {"test_db"})

GrowCommitMigration ==
    /\ "commit_migration" \in GrowDue
    /\ CommitMigration(GrowLimit, MigratingTasks)

NextGrow ==
    \/ GrowAddCluster
    \/ GrowAddProxy
    \/ GrowAutoAddNodes
    \/ GrowMigrateSlots
    \/ GrowCommitMigration

SpecGrow == InitGrow /\ [][NextGrow]_vars

\* Clusters on four hosts: the store starts with six to eight registered
\* proxies on four hosts, a cluster of one or two chunks is added, and chunks
\* are added to it.
AllocPools ==
    {pool \in SUBSET {ProxyAddr(h, i) : h \in {"h1", "h2", "h3", "h4"}, i \in 1..2} :
        Cardinality(pool) >= 6}

AllocLimit == Cardinality(DOMAIN all_proxies) + AllocSteps

InitAlloc ==
    \E pool \in AllocPools :
        /\ global_epoch = PoolStore(pool).global_epoch
        /\ cluster = PoolStore(pool).cluster
        /\ all_proxies = PoolStore(pool).all_proxies
        /\ failed_proxies = PoolStore(pool).failed_proxies
        /\ failures = PoolStore(pool).failures
        /\ now = 0
        /\ op = "add_proxy"
        /\ res = [err |-> "Ok", ret |-> None]
        /\ pair = None

NextAlloc ==
    \/ AddCluster(AllocLimit, {<<"test_db", 4>>, <<"test_db", 8>>})
    \/ AutoAddNodes(AllocLimit, {<<"test_db", Some(4)>>, <<"test_db", None>>})

SpecAlloc == InitAlloc /\ [][NextAlloc]_vars

-----------------------------------------------------------------------------
(* Properties *)

\* the operations that change the store
Mutators ==
    {"add_proxy", "remove_proxy", "add_cluster", "remove_cluster", "auto_add_nodes",
     "migrate_slots", "commit_migration", "add_failure", "replace_failed_proxy"}

StoreVars == <<global_epoch, cluster, all_proxies, failed_proxies, failures>>

\* the migration entries of all chunks, in iteration order
Entries(s) ==
    FlattenSeq([c \in 1..Len(ChunksOf(s)) |->
                  ChunksOf(s)[c].migrating_slots[1] \o ChunksOf(s)[c].migrating_slots[2]])

\* the stable ranges and the importing (is_migrating = false) ranges of all chunks
OwnedRanges(s) ==
    FlattenSeq([m \in 1..(CHUNK_PARTS * Len(ChunksOf(s))) |->
        LET chunk == ChunksOf(s)[(m + 1) \div 2]
            j == ((m - 1) % 2) + 1
        IN  (IF IsSome(chunk.stable_slots[j]) THEN chunk.stable_slots[j][1] ELSE <<>>)
            \o FlattenSeq([k \in 1..Len(chunk.migrating_slots[j]) |->
                              IF chunk.migrating_slots[j][k].is_migrating THEN <<>>
                              ELSE chunk.migrating_slots[j][k].range_list])])

\* the ranges hold every slot of 0 .. SLOT_NUM-1 exactly once: sorted by start
\* they are non-empty, start at 0, follow one another without gap or overlap
\* and end at SLOT_NUM-1
Tiles(rs) ==
    LET sorted == SortRanges(rs)
    IN  /\ Len(sorted) > 0
        /\ \A k \in 1..Len(sorted) : sorted[k][1] <= sorted[k][2]
        /\ sorted[1][1] = 0
        /\ \A k \in 1..(Len(sorted) - 1) : sorted[k + 1][1] = sorted[k][2] + 1
        /\ sorted[Len(sorted)][2] = SLOT_NUM - 1

\* C1: whenever a cluster exists, the stable range lists together with the
\* importing range lists of all chunks contain every slot of 0..SLOT_NUM-1
\* exactly once, in every state reached by auto_add_nodes, migrate_slots,
\* partial commits, a second migrate_slots and replace_failed_proxy in any order.
C1_SlotInvariant == IsSome(cluster) => Tiles(OwnedRanges(S))

\* a state with the entries of two migration plans and a taken-over chunk
C1_TwoPlansAndTakeover ==
    /\ IsSome(cluster)
    /\ \E c \in 1..Len(ChunksOf(S)) : ChunksOf(S)[c].role_position # "Normal"
    /\ \E i, k \in 1..Len(Entries(S)) : Entries(S)[i].meta.epoch # Entries(S)[k].meta.epoch

\* C2: global_epoch never decreases, and every successful call of a mutator
\* leaves it strictly greater than before the call (a step that leaves the
\* clock alone is a call, and op and res are then its name and result).
C2_EpochMonotone ==
    [][/\ global_epoch' >= global_epoch
       /\ (now' = now /\ op' \in Mutators /\ res'.err = "Ok")
             => global_epoch' > global_epoch]_vars

\* a plan has been committed: the last of add_cluster, auto_add_nodes,
\* migrate_slots and commit_migration succeeded
C2_CommitSucceeded == op = "commit_migration" /\ res.err = "Ok"

\* a call of a mutator that returns an error
FailedCall == now' = now /\ op' \in Mutators /\ res'.err # "Ok"

\* replace_failed_proxy returned NotInUse and has inserted the address of a
\* registered proxy no node uses into failed_proxies, nothing else changed
NotInUseStep ==
    /\ op' = "replace_failed_proxy" /\ res'.err = "NotInUse"
    /\ \E a \in DOMAIN all_proxies :
          ~InUse(S, a) /\ failed_proxies' = failed_proxies \cup {a}
    /\ UNCHANGED <<global_epoch, cluster, all_proxies, failures>>

\* replace_failed_proxy returned NoAvailableResource after the takeover: the
\* epoch is one higher and the role position of one chunk is that of a
\* taken-over chunk, nothing else changed
TakeoverOnlyStep ==
    /\ op' = "replace_failed_proxy" /\ res'.err = "NoAvailableResource"
    /\ global_epoch' = global_epoch + 1
    /\ IsSome(cluster)
    /\ \E c \in 1..Len(ChunksOf(S)), rp \in {"FirstChunkMaster", "SecondChunkMaster"} :
          cluster' = [cluster EXCEPT ![1].chunks[c].role_position = rp]
    /\ UNCHANGED <<all_proxies, failed_proxies, failures>>

\* C3 as stated: every mutator call that returns an error leaves the whole
\* store as it was, except that replace_failed_proxy returning NotInUse has
\* inserted the address into failed_proxies; so replace_failed_proxy returning
\* NoAvailableResource changes neither global_epoch nor a role_position.
C3_FailedCallsChangeNothing ==
    [][FailedCall => (UNCHANGED StoreVars \/ NotInUseStep)]_vars

\* C3, amended: every mutator call that returns an error leaves the whole
\* store as it was, with two exceptions: replace_failed_proxy returning
\* NotInUse has inserted the address into failed_proxies, and
\* replace_failed_proxy returning NoAvailableResource has done the takeover
\* (global_epoch one higher, the failed proxy's chunk taken over).
C3_FailedCallsChangeNothingButTakeover ==
    [][FailedCall => (UNCHANGED StoreVars \/ NotInUseStep \/ TakeoverOnlyStep)]_vars

\* replace_failed_proxy has returned NoAvailableResource on a taken-over chunk
C3_TakeoverWithoutReplacement ==
    /\ op = "replace_failed_proxy" /\ res.err = "NoAvailableResource"
    /\ \E c \in 1..Len(ChunksOf(S)) : ChunksOf(S)[c].role_position # "Normal"

\* C4 as stated: in every reachable state the two proxies of every chunk are
\* on different hosts, also after a successful replace_failed_proxy when the
\* only free proxies are on the host of the chunk's surviving proxy.
C4_ChunkProxiesOnDifferentHosts ==
    \A c \in 1..Len(ChunksOf(S)) :
        HostOf(ChunksOf(S)[c].proxy_addresses[1]) # HostOf(ChunksOf(S)[c].proxy_addresses[2])

\* no cluster, and the free proxies are 3 on one host and 1 on another
ImbalancedPool(s) ==
    /\ IsNone(s.cluster)
    /\ Cardinality(get_free_proxies(s)) = 4
    /\ \E a, b \in {HostOf(p) : p \in get_free_proxies(s)} :
          /\ a # b
          /\ Cardinality({p \in get_free_proxies(s) : HostOf(p) = a}) = 3
          /\ Cardinality({p \in get_free_proxies(s) : HostOf(p) = b}) = 1

\* C5 as stated: with a free pool of 3 proxies on host A and 1 proxy on host
\* B and no cluster, add_cluster("x", 4) returns ResourceNotBalance.
C5_ImbalancedPoolRejected ==
    ImbalancedPool(S) =>
        \A o \in add_cluster(S, "x", 4) : o.err = "ResourceNotBalance"

\* C5, amended: with a free pool of 3 proxies on host A and 1 proxy on host B
\* and no cluster, add_cluster(name, 4) never returns ResourceNotBalance; with
\* a name DBName accepts it succeeds: the pool is pruned to one proxy of A and
\* the proxy of B, the cluster has one chunk pairing them and global_epoch is
\* one higher.
C5_ImbalancedPoolPruned ==
    ImbalancedPool(S) =>
        \A name \in Names : \A o \in add_cluster(S, name, 4) :
            /\ o.err # "ResourceNotBalance"
            /\ ValidName(name) =>
                  /\ o.err = "Ok"
                  /\ o.store.global_epoch = global_epoch + 1
                  /\ Len(ChunksOf(o.store)) = 1
                  /\ {HostOf(ChunksOf(o.store)[1].proxy_addresses[j]) : j \in 1..CHUNK_PARTS}
                        = {HostOf(p) : p \in get_free_proxies(S)}

\* add_cluster has succeeded as the first mutator on the pool of 3 proxies on
\* h1 and 1 proxy on h2
C5_ClusterOnImbalancedPool ==
    /\ op = "add_cluster" /\ res.err = "Ok"
    /\ DOMAIN all_proxies =
          {ProxyAddr("h1", 1), ProxyAddr("h1", 2), ProxyAddr("h1", 3), ProxyAddr("h2", 1)}
    /\ failed_proxies = {} /\ failures = <<>>
    /\ global_epoch = 5
    /\ Len(ChunksOf(S)) = 1

\* the even split of SLOT_NUM over M masters: the size and the start slot of
\* the share of master i
EvenSize(i, M) ==
    (SLOT_NUM \div M) + (IF i < SLOT_NUM - (SLOT_NUM \div M) * M THEN 1 ELSE 0)

EvenStart(i, M) ==
    i * (SLOT_NUM \div M)
    + (IF i < SLOT_NUM - (SLOT_NUM \div M) * M THEN i ELSE SLOT_NUM - (SLOT_NUM \div M) * M)

\* C6: after a successful add_cluster with M masters, the master with index
\* i = 2*chunk_index + chunk_part holds exactly one contiguous stable range of
\* avg + (1 if i < rem else 0) slots, the ranges are laid out in index order
\* from slot 0 without gap, and every chunk has role_position Normal and
\* empty migrating lists.
C6_AddClusterEvenSplit ==
    (op = "add_cluster" /\ res.err = "Ok") =>
        /\ IsSome(cluster)
        /\ \A c \in 1..Len(ChunksOf(S)) :
              /\ ChunksOf(S)[c].role_position = "Normal"
              /\ ChunksOf(S)[c].migrating_slots = << <<>>, <<>> >>
              /\ \A j \in 0..(CHUNK_PARTS - 1) :
                    LET i == 2 * (c - 1) + j
                        M == 2 * Len(ChunksOf(S))
                    IN  ChunksOf(S)[c].stable_slots[j + 1] =
                            Some(<< <<EvenStart(i, M), EvenStart(i, M) + EvenSize(i, M) - 1>> >>)

\* add_cluster has built 3 chunks: 6 masters, and SLOT_NUM is no multiple of 6
C6_ClusterWithRemainder ==
    /\ op = "add_cluster" /\ res.err = "Ok"
    /\ Len(ChunksOf(S)) = 3

\* the number of stable slots of master m (0-based)
MasterSlots(s, m) ==
    LET stable == ChunksOf(s)[(m \div 2) + 1].stable_slots[(m % 2) + 1]
    IN  IF IsSome(stable) THEN get_slots_num(stable[1]) ELSE 0

\* C7: from a cluster without migration entries and with the even-split
\* counts, after auto_add_nodes, migrate_slots and the commit of every
\* Migrating task in any order, no migration entry remains, every master m of
\* the enlarged cluster holds stable slots only, avg + (1 if m < rem else 0)
\* of them for the new master count, and the counts do not increase with the
\* master index; also when the cycle is repeated.
C7_ScaleUpEvenSplit ==
    (/\ op = "commit_migration" /\ res.err = "Ok"
     /\ \A k \in 1..Len(Entries(S)) : ~Entries(S)[k].is_migrating) =>
        LET M == 2 * Len(ChunksOf(S))
        IN  /\ ~HasEntries(S)
            /\ \A m \in 0..(M - 1) :
                  /\ IsSome(ChunksOf(S)[(m \div 2) + 1].stable_slots[(m % 2) + 1])
                  /\ MasterSlots(S, m) = EvenSize(m, M)
            /\ \A m \in 0..(M - 2) : MasterSlots(S, m) >= MasterSlots(S, m + 1)

\* the last commit of a second scale-up cycle: 1 chunk, then 2, then 3 (the
\* third master got 4096..8191 in the first cycle and keeps 4096..6826)
C7_SecondCycleCommitted ==
    /\ op = "commit_migration" /\ res.err = "Ok"
    /\ ~HasEntries(S)
    /\ Len(ChunksOf(S)) = 3
    /\ ChunksOf(S)[2].stable_slots[1] = Some(<< <<4096, 6826>> >>)

\* the positions of the entries a task matches in one direction
Matches(s, task, is_migrating) ==
    {p \in Positions(ChunksOf(s)) :
        LET e == ChunksOf(s)[p[1]].migrating_slots[p[2]][p[3]]
        IN  /\ e.range_list = task.slot_range.range_list
            /\ e.meta.epoch = task.slot_range.tag.meta.epoch
            /\ e.is_migrating = is_migrating}

\* C8: for any (range_list, epoch) the cluster has at most one entry with
\* is_migrating = true and at most one with is_migrating = false; so a
\* commit_migration with a Migrating or Importing tag either matches exactly
\* one source entry and exactly one destination entry or returns
\* MigrationTaskNotFound.
C8_EntriesUnique ==
    /\ \A i, k \in 1..Len(Entries(S)) :
          (/\ Entries(S)[i].range_list = Entries(S)[k].range_list
           /\ Entries(S)[i].meta.epoch = Entries(S)[k].meta.epoch
           /\ Entries(S)[i].is_migrating = Entries(S)[k].is_migrating) => i = k
    /\ \A task \in Tasks \cup StaleTasks :
          task.slot_range.tag.kind # "None" =>
              \A o \in commit_migration(S, task) :
                  \/ o.err = "MigrationTaskNotFound"
                  \/ /\ o.err = "Ok"
                     /\ Cardinality(Matches(S, task, TRUE)) = 1
                     /\ Cardinality(Matches(S, task, FALSE)) = 1

\* the entries of two plans are in the cluster, and a commit of a task of an
\* earlier plan has returned MigrationTaskNotFound
C8_TwoPlansAndStaleCommit ==
    /\ op = "commit_migration" /\ res.err = "MigrationTaskNotFound"
    /\ \E i, k \in 1..Len(Entries(S)) :
          /\ Entries(S)[i].meta.epoch # Entries(S)[k].meta.epoch
          /\ Entries(S)[i].is_migrating /\ Entries(S)[k].is_migrating

\* C9: while a cluster exists, add_cluster with any valid name returns
\* OnlySupportOneCluster and leaves global_epoch and the existing cluster (the
\* whole store) unchanged.
C9_OnlyOneCluster ==
    IsSome(cluster) =>
        \A name \in ValidNames, n \in NodeNums :
            add_cluster(S, name, n) = {Out(S, "OnlySupportOneCluster", None)}

\* add_cluster has been called while a cluster exists
C9_SecondAddCluster ==
    /\ op = "add_cluster" /\ res.err = "OnlySupportOneCluster"
    /\ IsSome(cluster)

\* the nodes of the projection with the proxy address a
NodesAt(s, a) ==
    {k \in 1..Len(get_cluster_nodes(s)) : get_cluster_nodes(s)[k].proxy_address = a}

\* C10: after a successful replace_failed_proxy(f) with f at proxy position 0
\* (resp. 1) of a chunk, the chunk's role_position is SecondChunkMaster (resp.
\* FirstChunkMaster), no node references f, the returned proxy owns exactly
\* two nodes of the cluster and both are Replicas, the two nodes of the
\* chunk's surviving proxy are Masters, f is in failed_proxies and
\* global_epoch has advanced by at least 2.
C10_ReplaceFailedProxy ==
    \A f \in OccupiedProxies(S) : \A o \in replace_failed_proxy(S, f) :
        o.err = "Ok" =>
            LET at == CHOOSE p \in (1..Len(ChunksOf(S))) \X (1..CHUNK_PARTS) :
                          ChunksOf(S)[p[1]].proxy_addresses[p[2]] = f
                chunk == ChunksOf(o.store)[at[1]]
                nodes == get_cluster_nodes(o.store)
                survivor == chunk.proxy_addresses[3 - at[2]]
            IN  /\ chunk.role_position =
                      (IF at[2] = 1 THEN "SecondChunkMaster" ELSE "FirstChunkMaster")
                /\ \A k \in 1..Len(nodes) :
                      nodes[k].proxy_address # f /\ nodes[k].peer.proxy_address # f
                /\ IsSome(o.ret)
                /\ o.ret[1].address = chunk.proxy_addresses[at[2]]
                /\ Len(o.ret[1].nodes) = 2
                /\ \A n \in 1..Len(o.ret[1].nodes) : o.ret[1].nodes[n].role = "Replica"
                /\ Cardinality(NodesAt(o.store, o.ret[1].address)) = 2
                /\ \A k \in NodesAt(o.store, o.ret[1].address) : nodes[k].role = "Replica"
                /\ Cardinality(NodesAt(o.store, survivor)) = 2
                /\ \A k \in NodesAt(o.store, survivor) : nodes[k].role = "Master"
                /\ f \in o.store.failed_proxies
                /\ o.store.global_epoch >= global_epoch + 2

\* replace_failed_proxy has succeeded, and the cluster has a chunk taken over
\* by its first proxy and one taken over by its second
C10_BothPositionsReplaced ==
    /\ op = "replace_failed_proxy" /\ res.err = "Ok"
    /\ \E c \in 1..Len(ChunksOf(S)) : ChunksOf(S)[c].role_position = "SecondChunkMaster"
    /\ \E c \in 1..Len(ChunksOf(S)) : ChunksOf(S)[c].role_position = "FirstChunkMaster"

\* C11: replace_failed_proxy(addr) returns HostNotFound when addr is not in
\* all_proxies. When addr is known but no chunk of the cluster references it
\* (also when there is no cluster) it returns NotInUse, addr is in
\* failed_proxies afterwards, and global_epoch and the cluster are unchanged.
C11_ReplaceUnknownOrUnused ==
    \A addr \in AllProxyAddrs :
        LET outs == replace_failed_proxy(S, addr)
        IN  /\ outs # {}
            /\ addr \notin DOMAIN all_proxies =>
                   \A o \in outs : o.err = "HostNotFound"
            /\ addr \in DOMAIN all_proxies /\ addr \notin OccupiedProxies(S) =>
                   \A o \in outs :
                       /\ o.err = "NotInUse"
                       /\ addr \in o.store.failed_proxies
                       /\ o.store.global_epoch = global_epoch
                       /\ o.store.cluster = cluster

\* replace_failed_proxy has just returned NotInUse while no cluster exists,
\* and an address unknown to the store is there to be asked for
C11_NotInUseWithoutCluster ==
    /\ op = "replace_failed_proxy"
    /\ res.err = "NotInUse"
    /\ IsNone(cluster)
    /\ failed_proxies # {}
    /\ AllProxyAddrs \ DOMAIN all_proxies # {}

\* the chunk positions <<chunk, part>> of store t that hold a proxy which
\* store s does not hold at that position
PlacedAt(s, t) ==
    {<<c, j>> \in (1..Len(ChunksOf(t))) \X (1..CHUNK_PARTS) :
        \/ c > Len(ChunksOf(s))
        \/ ChunksOf(t)[c].proxy_addresses[j] # ChunksOf(s)[c].proxy_addresses[j]}

\* the proxies one call places were free when it was made, and are distinct
PlacedWereFree(s, o) ==
    LET placed == PlacedAt(s, o.store)
        Proxy(p) == ChunksOf(o.store)[p[1]].proxy_addresses[p[2]]
    IN  /\ \A p \in placed :
              /\ Proxy(p) \in DOMAIN s.all_proxies
              /\ Proxy(p) \notin s.failed_proxies
              /\ Proxy(p) \notin DOMAIN s.failures
              /\ Proxy(p) \notin OccupiedProxies(s)
        /\ \A p, q \in placed : p # q => Proxy(p) # Proxy(q)

\* C12: every proxy that add_cluster, auto_add_nodes or replace_failed_proxy
\* places into a chunk was, when the call was made, a key of all_proxies, not
\* in failed_proxies, not a key of failures (however old its reports are) and
\* not referenced by any chunk; the proxies of one call are pairwise distinct.
C12_PlacedProxiesWereFree ==
    /\ \A a \in AddClusterArgs : \A o \in add_cluster(S, a[1], a[2]) : PlacedWereFree(S, o)
    /\ \A a \in AutoAddNodesArgs : \A o \in auto_add_nodes(S, a[1], a[2]) : PlacedWereFree(S, o)
    /\ \A a \in AddrArgs : \A o \in replace_failed_proxy(S, a) : PlacedWereFree(S, o)

\* a call has just placed proxies while a registered proxy outside the
\* cluster still carries a report from an earlier second
C12_PlacedBesideReportedProxy ==
    /\ op \in {"add_cluster", "auto_add_nodes", "replace_failed_proxy"}
    /\ res.err = "Ok"
    /\ \E p \in DOMAIN failures :
          /\ p \in DOMAIN all_proxies
          /\ p \notin failed_proxies
          /\ p \notin OccupiedProxies(S)
          /\ \A r \in DOMAIN failures[p] : failures[p][r] < now

\* C13: remove_proxy(addr) returns InUse and changes nothing when some chunk
\* of the cluster references addr. Otherwise it succeeds, also for an address
\* that was never known: addr is then absent from all_proxies, failed_proxies
\* and failures, and global_epoch is bumped.
C13_RemoveProxy ==
    \A addr \in AddrArgs :
        LET outs == remove_proxy(S, addr)
        IN  /\ outs # {}
            /\ addr \in OccupiedProxies(S) =>
                   \A o \in outs : o.err = "InUse" /\ o.store = S
            /\ addr \notin OccupiedProxies(S) =>
                   \A o \in outs :
                       /\ o.err = "Ok"
                       /\ addr \notin DOMAIN o.store.all_proxies
                       /\ addr \notin o.store.failed_proxies
                       /\ addr \notin DOMAIN o.store.failures
                       /\ o.store.global_epoch = global_epoch + 1

\* remove_proxy has just succeeded as the first call on a pool, for an
\* address the store never knew: the registered proxies are all still there
C13_RemovedUnknownProxy ==
    /\ op = "remove_proxy"
    /\ res.err = "Ok"
    /\ DOMAIN all_proxies \in Pools
    /\ global_epoch = PoolStore(DOMAIN all_proxies).global_epoch + 1

\* C14: add_proxy(addr, nodes) with an address that does not contain exactly
\* one ':' returns InvalidProxyAddress and changes nothing. Otherwise it
\* succeeds and bumps global_epoch, addr is afterwards a key of all_proxies and
\* neither in failed_proxies nor a key of failures, and when addr was already
\* a key of all_proxies its stored node addresses are the ones it had, also
\* when the supplied nodes differ.
C14_AddProxy ==
    \A a \in PoolAddProxyArgs :
        LET addr == a[1]
            outs == add_proxy(S, addr, a[2])
        IN  /\ outs # {}
            /\ Len(addr) # 2 =>
                   \A o \in outs : o.err = "InvalidProxyAddress" /\ o.store = S
            /\ Len(addr) = 2 =>
                   \A o \in outs :
                       /\ o.err = "Ok"
                       /\ o.store.global_epoch = global_epoch + 1
                       /\ addr \in DOMAIN o.store.all_proxies
                       /\ addr \notin o.store.failed_proxies
                       /\ addr \notin DOMAIN o.store.failures
                       /\ addr \in DOMAIN all_proxies =>
                              o.store.all_proxies[addr] = all_proxies[addr]

\* add_proxy has just succeeded for a proxy of the cluster, which was
\* registered before the cluster was made and cannot have been removed since
C14_KnownProxyAddedAgain ==
    /\ op = "add_proxy"
    /\ res.err = "Ok"
    /\ IsSome(cluster)
    /\ PoolAddrs \subseteq OccupiedProxies(S)
    /\ \E a \in PoolAddrs : all_proxies[a] = OtherNodesOf(a)

\* the reports <<address, reporter, time>> of a store
Reports(s) ==
    {<<a[1], a[2], s.failures[a[1]][a[2]]>> : a \in
        UNION {{<<x, y>> : y \in DOMAIN s.failures[x]} : x \in DOMAIN s.failures}}

\* C15: get_failures(ttl, quorum) removes every report older than ttl and
\* keeps the younger ones, then removes every proxy whose reporter map became
\* empty, and returns exactly the addresses that still have at least quorum
\* reporters; global_epoch, the cluster, all_proxies and failed_proxies are
\* unchanged.
C15_GetFailures ==
    \A a \in PoolGetFailuresArgs :
        LET ttl == a[1]
            quorum == a[2]
            outs == get_failures(S, ttl, quorum, now)
        IN  /\ outs # {}
            /\ \A o \in outs :
                  /\ o.err = "Ok"
                  /\ Reports(o.store) \subseteq Reports(S)
                  /\ \A x \in Reports(S) :
                        /\ now - x[3] > ttl => x \notin Reports(o.store)
                        /\ now - x[3] < ttl => x \in Reports(o.store)
                  /\ \A p \in DOMAIN o.store.failures : DOMAIN o.store.failures[p] # {}
                  /\ o.ret = {p \in PoolAddrs :
                                Cardinality({x \in Reports(o.store) : x[1] = p}) >= quorum}
                  /\ o.store.global_epoch = global_epoch
                  /\ o.store.cluster = cluster
                  /\ o.store.all_proxies = all_proxies
                  /\ o.store.failed_proxies = failed_proxies

\* get_failures has just returned a proxy that two reporters report and left
\* out another whose reports are fewer than the quorum
C15_QuorumOfTwo ==
    /\ op = "get_failures"
    /\ res.ret # {}
    /\ \E p \in res.ret : Cardinality(DOMAIN failures[p]) = 2
    /\ DOMAIN failures \ res.ret # {}

\* C16: after add_failure(p, r1), get_failures(ttl = 0, quorum = 1) called in
\* the same or any later clock second returns no address and leaves no entry
\* for p in failures, so that p is free again if it is registered, not
\* declared failed and not referenced by a chunk.
C16_ZeroTtlClearsReports ==
    \A p \in DOMAIN failures :
        \A t \in now..MaxPoolClock :
            \A o \in get_failures(S, 0, 1, t) :
                /\ o.ret = {}
                /\ p \notin DOMAIN o.store.failures
                /\ (/\ p \in DOMAIN all_proxies
                    /\ p \notin failed_proxies
                    /\ p \notin OccupiedProxies(S)) => p \in get_free_proxies(o.store)

\* add_failure was the last call, a clock second ago or more, for a
\* registered proxy that only its report keeps from being free
C16_ReportedSecondsAgo ==
    /\ op = "add_failure"
    /\ \E p \in DOMAIN failures :
          /\ "r1" \in DOMAIN failures[p]
          /\ failures[p]["r1"] < now
          /\ p \in DOMAIN all_proxies
          /\ p \notin failed_proxies
          /\ p \notin OccupiedProxies(S)
          /\ p \notin get_free_proxies(S)

\* some chunk has entries in both of its migrating lists
BothListsBusy(s) ==
    \E c \in 1..Len(ChunksOf(s)) :
        /\ ChunksOf(s)[c].migrating_slots[1] # <<>>
        /\ ChunksOf(s)[c].migrating_slots[2] # <<>>

\* C17: migrate_slots with the name of the existing cluster returns
\* MigrationRunning, changing nothing, exactly when some chunk has both of its
\* migrating lists non-empty; in every other state of the cluster, also with
\* entries of an earlier plan left, it succeeds.
C17_MigrationRunning ==
    IsSome(cluster) =>
        LET outs == migrate_slots(S, cluster[1].name)
        IN  /\ outs # {}
            /\ BothListsBusy(S) =>
                   \A o \in outs : o.err = "MigrationRunning" /\ o.store = S
            /\ ~BothListsBusy(S) => \A o \in outs : o.err = "Ok"

\* migrate_slots has just succeeded although entries of an earlier plan are
\* still there
C17_SecondPlanOverFirst ==
    /\ op = "migrate_slots"
    /\ res.err = "Ok"
    /\ \E k \in 1..Len(Entries(S)) : Entries(S)[k].meta.epoch = global_epoch
    /\ \E k \in 1..Len(Entries(S)) : Entries(S)[k].meta.epoch < global_epoch

\* the migration entry at position p = <<chunk, part, entry>> (1-based)
EntryAt(s, p) == ChunksOf(s)[p[1]].migrating_slots[p[2]][p[3]]

\* the positions of the entries with the given direction, range list and meta
Twins(s, e, is_migrating) ==
    {q \in Positions(ChunksOf(s)) :
        /\ EntryAt(s, q).is_migrating = is_migrating
        /\ EntryAt(s, q).range_list = e.range_list
        /\ EntryAt(s, q).meta = e.meta}

\* C18: the migration entries are paired. Every entry has exactly one entry of
\* the other direction with the same range_list and meta; the is_migrating
\* entry is stored at chunk meta.src_chunk_index, part meta.src_chunk_part,
\* the other one at chunk meta.dst_chunk_index, part meta.dst_chunk_part, and
\* both indices are indices of existing chunks.
C18_EntriesPaired ==
    \A p \in Positions(ChunksOf(S)) :
        LET e == EntryAt(S, p)
        IN  /\ Cardinality(Twins(S, e, ~e.is_migrating)) = 1
            /\ e.meta.src_chunk_index \in 0..(Len(ChunksOf(S)) - 1)
            /\ e.meta.dst_chunk_index \in 0..(Len(ChunksOf(S)) - 1)
            /\ e.is_migrating =>
                   /\ p[1] = e.meta.src_chunk_index + 1
                   /\ p[2] = e.meta.src_chunk_part + 1
            /\ ~e.is_migrating =>
                   /\ p[1] = e.meta.dst_chunk_index + 1
                   /\ p[2] = e.meta.dst_chunk_part + 1

\* commit_migration has just removed one pair while pairs of two plans are
\* left, one of them towards the second part of a chunk
C18_PairsOfTwoPlans ==
    /\ op = "commit_migration"
    /\ res.err = "Ok"
    /\ \E p, q \in Positions(ChunksOf(S)) :
          /\ EntryAt(S, p).meta.epoch # EntryAt(S, q).meta.epoch
          /\ EntryAt(S, p).meta.dst_chunk_part = 1

\* C19: every entry that a successful migrate_slots creates carries
\* meta.epoch = global_epoch as it is right after the call, the epoch before
\* the call plus one, while the entries that were there stay as they are. No
\* entry has an epoch above the current global_epoch, so the entries of two
\* plans differ in their epochs.
C19_PlanEpoch ==
    /\ \A p \in Positions(ChunksOf(S)) : EntryAt(S, p).meta.epoch <= global_epoch
    /\ IsSome(cluster) =>
          \A o \in migrate_slots(S, cluster[1].name) :
              o.err = "Ok" =>
                  /\ o.store.global_epoch = global_epoch + 1
                  /\ Len(ChunksOf(o.store)) = Len(ChunksOf(S))
                  /\ \A c \in 1..Len(ChunksOf(S)), j \in 1..CHUNK_PARTS :
                        LET old == ChunksOf(S)[c].migrating_slots[j]
                            new == ChunksOf(o.store)[c].migrating_slots[j]
                        IN  /\ Len(new) >= Len(old)
                            /\ SubSeq(new, 1, Len(old)) = old
                            /\ \A k \in (Len(old) + 1)..Len(new) :
                                  new[k].meta.epoch = o.store.global_epoch

\* migrate_slots has just made a plan whose entries carry the current epoch,
\* beside the entries of an earlier plan on the same list
C19_TwoPlansOnOneList ==
    /\ op = "migrate_slots"
    /\ res.err = "Ok"
    /\ \E c \in 1..Len(ChunksOf(S)), j \in 1..CHUNK_PARTS :
          LET list == ChunksOf(S)[c].migrating_slots[j]
          IN  /\ Len(list) >= 2
              /\ list[1].meta.epoch < global_epoch
              /\ list[Len(list)].meta.epoch = global_epoch

\* C20: commit_migration returns ClusterNotFound when no cluster exists;
\* with a cluster, InvalidMigrationTask when the tag of the task's slot range
\* is None, and MigrationTaskNotFound when no is_migrating entry or no
\* importing entry has the task's range_list and epoch. In the three cases the
\* store, global_epoch included, is unchanged.
C20_CommitErrors ==
    \A task \in Tasks \cup StaleTasks \cup ForeignTasks :
        LET outs == commit_migration(S, task)
            untagged == task.slot_range.tag.kind = "None"
        IN  /\ outs # {}
            /\ IsNone(cluster) =>
                   \A o \in outs : o.err = "ClusterNotFound" /\ o.store = S
            /\ IsSome(cluster) /\ untagged =>
                   \A o \in outs : o.err = "InvalidMigrationTask" /\ o.store = S
            /\ (/\ IsSome(cluster)
                /\ ~untagged
                /\ Matches(S, task, TRUE) = {} \/ Matches(S, task, FALSE) = {}) =>
                   \A o \in outs : o.err = "MigrationTaskNotFound" /\ o.store = S

\* commit_migration has just returned ClusterNotFound: no cluster exists, and
\* a proxy is declared failed
C20_CommitWithoutCluster ==
    /\ op = "commit_migration"
    /\ res.err = "ClusterNotFound"
    /\ IsNone(cluster)
    /\ failed_proxies # {}

\* slot x is in one of the ranges of the range list
InRanges(range_list, x) ==
    \E k \in 1..Len(range_list) : range_list[k][1] <= x /\ x <= range_list[k][2]

\* the slots at which membership in one of the range lists can change
Boundaries(range_lists) ==
    UNION {UNION {{range_lists[n][k][1], range_lists[n][k][2] + 1} :
                     k \in 1..Len(range_lists[n])} : n \in 1..Len(range_lists)}

\* the range list of an Option<SlotRange> of the store
StableRanges(opt) == IF IsSome(opt) THEN opt[1] ELSE <<>>

\* the list without the entries at the positions R within chunk c, part j
WithoutPositions(list, c, j, R) ==
    LET idx == {n \in 1..Len(list) : <<c, j, n>> \notin R}
    IN  [k \in 1..Cardinality(idx) |->
            list[CHOOSE n \in idx : Cardinality({m \in idx : m < n}) = k - 1]]

\* the store t is the store s after the commit of the task: the two matching
\* entries are gone, the destination part has gained the task's slots, and
\* nothing else of the chunks differs
CommittedFrom(s, t, task) ==
    LET src == Matches(s, task, TRUE)
        dst == Matches(s, task, FALSE)
        ranges == task.slot_range.range_list
    IN  /\ Cardinality(src) = 1 /\ Cardinality(dst) = 1
        /\ Len(ChunksOf(t)) = Len(ChunksOf(s))
        /\ \A c \in 1..Len(ChunksOf(s)) :
              LET old == ChunksOf(s)[c]
                  new == ChunksOf(t)[c]
              IN  /\ new.role_position = old.role_position
                  /\ new.proxy_addresses = old.proxy_addresses
                  /\ new.node_addresses = old.node_addresses
                  /\ \A j \in 1..CHUNK_PARTS :
                        /\ new.migrating_slots[j] =
                               WithoutPositions(old.migrating_slots[j], c, j, src \cup dst)
                        /\ IF \E q \in dst : q[1] = c /\ q[2] = j
                           THEN LET was == StableRanges(old.stable_slots[j])
                                    is == StableRanges(new.stable_slots[j])
                                IN  /\ IsSome(new.stable_slots[j])
                                    /\ \A x \in Boundaries(<<was, is, ranges>>) :
                                          /\ InRanges(is, x) <=>
                                                 (InRanges(was, x) \/ InRanges(ranges, x))
                                          /\ ~(InRanges(was, x) /\ InRanges(ranges, x))
                           ELSE new.stable_slots[j] = old.stable_slots[j]

\* C21: a successful commit_migration removes exactly the matching migrating
\* entry from the source part and the matching importing entry from the
\* destination part, adds exactly the task's slots to the stable slots of the
\* destination part (creating the stable range when it was None), and leaves
\* every other stable range, every other entry, every role_position and all
\* proxy and node addresses unchanged.
C21_CommitFrame ==
    \A task \in Tasks \cup StaleTasks :
        \A o \in commit_migration(S, task) :
            o.err = "Ok" =>
                /\ CommittedFrom(S, o.store, task)
                /\ o.store.all_proxies = all_proxies
                /\ o.store.failed_proxies = failed_proxies
                /\ o.store.failures = failures

\* commit_migration has just succeeded; entries of other tasks are left, one
\* chunk has received its first stable range on one part only, and another
\* chunk has taken over
C21_CommitBesideOthers ==
    /\ op = "commit_migration"
    /\ res.err = "Ok"
    /\ Entries(S) # <<>>
    /\ \E c \in 1..Len(ChunksOf(S)) :
          /\ IsSome(ChunksOf(S)[c].stable_slots[1])
          /\ IsNone(ChunksOf(S)[c].stable_slots[2])
    /\ \E c \in 1..Len(ChunksOf(S)) : ChunksOf(S)[c].role_position # "Normal"

\* C22: a successful auto_add_nodes(name, num) appends exactly num / 4 chunks
\* at the end of the chunk list, each with role_position Normal, both stable
\* slots None and both migrating lists empty, leaves the chunks that were
\* there unchanged, and returns exactly the num nodes of the appended chunks;
\* without num it takes 4 * number of chunks. On the cluster of that name a
\* num that is 0 or no multiple of 4 gives InvalidNodeNum; a missing or
\* differently named cluster gives ClusterNotFound.
C22_AutoAddNodes ==
    \A a \in AutoAddNodesArgs :
        LET num == IF IsNone(a[2]) THEN 4 * Len(ChunksOf(S)) ELSE a[2][1]
            was == Len(ChunksOf(S))
        IN  \A o \in auto_add_nodes(S, a[1], a[2]) :
                /\ (IsNone(cluster) \/ cluster[1].name # a[1]) =>
                       o.err = "ClusterNotFound" /\ o.store = S
                /\ (IsSome(cluster) /\ cluster[1].name = a[1] /\ (num = 0 \/ num % 4 # 0)) =>
                       o.err = "InvalidNodeNum" /\ o.store = S
                /\ o.err = "Ok" =>
                       LET chunks == ChunksOf(o.store)
                       IN  /\ Len(chunks) = was + (num \div 4)
                           /\ num % 4 = 0 /\ num > 0
                           /\ SubSeq(chunks, 1, was) = ChunksOf(S)
                           /\ \A c \in (was + 1)..Len(chunks) :
                                 /\ chunks[c].role_position = "Normal"
                                 /\ chunks[c].stable_slots = <<None, None>>
                                 /\ chunks[c].migrating_slots = <<(<<>>), (<<>>)>>
                           /\ Len(o.ret) = num
                           /\ \A k \in 1..Len(o.ret) :
                                 LET chunk == chunks[was + ((k - 1) \div 4) + 1]
                                     i == (k - 1) % 4
                                 IN  /\ o.ret[k].address = chunk.node_addresses[i + 1]
                                     /\ o.ret[k].proxy_address =
                                            chunk.proxy_addresses[(i \div 2) + 1]
                                     /\ o.ret[k].slots = <<>>

\* auto_add_nodes has just appended two chunks at once to a cluster of one chunk
C22_TwoChunksAppended ==
    /\ op = "auto_add_nodes"
    /\ res.err = "Ok"
    /\ Len(ChunksOf(S)) = 3
    /\ Len(res.ret) = 8
    /\ IsSome(ChunksOf(S)[1].stable_slots[1])
    /\ \A c \in 2..3 : ChunksOf(S)[c].stable_slots = <<None, None>>

\* the four nodes of chunk c (1-based) in the projection, indexed 0..3
ProjectedNodes(s, c) ==
    [i \in 0..(CHUNK_NODE_NUM - 1) |-> get_cluster_nodes(s)[CHUNK_NODE_NUM * (c - 1) + i + 1]]

\* the node indices that are Master under a role position
MasterIndices(role_position) ==
    CASE role_position = "Normal" -> {0, 2}
      [] role_position = "FirstChunkMaster" -> {0, 1}
      [] role_position = "SecondChunkMaster" -> {2, 3}

\* C23: in the projection each chunk has exactly two Master and two Replica
\* nodes (Normal: nodes 0 and 2 are Master; FirstChunkMaster: 0 and 1;
\* SecondChunkMaster: 2 and 3), only Master nodes carry slot ranges, and the
\* peer of node i is node 3 - i of the same chunk, so that the peer of a
\* Master is a Replica on the other proxy of the chunk.
C23_RolesAndPeers ==
    /\ Len(get_cluster_nodes(S)) = CHUNK_NODE_NUM * Len(ChunksOf(S))
    /\ \A c \in 1..Len(ChunksOf(S)) :
          LET nodes == ProjectedNodes(S, c)
              masters == {i \in DOMAIN nodes : nodes[i].role = "Master"}
              replicas == {i \in DOMAIN nodes : nodes[i].role = "Replica"}
          IN  /\ masters = MasterIndices(ChunksOf(S)[c].role_position)
              /\ replicas = DOMAIN nodes \ masters
              /\ Cardinality(masters) = 2 /\ Cardinality(replicas) = 2
              /\ \A i \in replicas : nodes[i].slots = <<>>
              /\ \A i \in DOMAIN nodes :
                    /\ nodes[i].peer.node_address = nodes[3 - i].address
                    /\ nodes[i].peer.proxy_address = nodes[3 - i].proxy_address
              /\ \A i \in masters :
                    /\ 3 - i \in replicas
                    /\ nodes[3 - i].proxy_address # nodes[i].proxy_address

\* the cluster has a chunk in each of the three role positions, and Master
\* nodes with migrating ranges
C23_AllRolePositions ==
    /\ \A r \in {"Normal", "FirstChunkMaster", "SecondChunkMaster"} :
          \E c \in 1..Len(ChunksOf(S)) : ChunksOf(S)[c].role_position = r
    /\ Entries(S) # <<>>
    /\ op = "replace_failed_proxy"

\* C24: remove_cluster(name) returns ClusterNotFound without any change when
\* no cluster exists or the cluster has another name. On success the cluster
\* with its chunks and entries is gone, global_epoch is bumped, all_proxies,
\* failed_proxies and failures are unchanged, and every proxy of the cluster
\* that is neither failed nor reported is free again; add_cluster followed by
\* remove_cluster restores the number of free proxies.
C24_RemoveCluster ==
    /\ \A name \in NameArgs :
          \A o \in remove_cluster(S, name) :
              IF IsNone(cluster) \/ cluster[1].name # name
              THEN o.err = "ClusterNotFound" /\ o.store = S
              ELSE /\ o.err = "Ok"
                   /\ IsNone(o.store.cluster)
                   /\ ChunksOf(o.store) = <<>>
                   /\ o.store.global_epoch = global_epoch + 1
                   /\ o.store.all_proxies = all_proxies
                   /\ o.store.failed_proxies = failed_proxies
                   /\ o.store.failures = failures
                   /\ \A p \in OccupiedProxies(S) :
                         (p \notin failed_proxies /\ p \notin DOMAIN failures) =>
                             p \in get_free_proxies(o.store)
    /\ \A a \in AddClusterArgs :
          \A o1 \in add_cluster(S, a[1], a[2]) :
              o1.err = "Ok" =>
                  \A o2 \in remove_cluster(o1.store, a[1]) :
                      /\ o2.err = "Ok"
                      /\ get_free_proxies(o2.store) = get_free_proxies(S)

\* remove_cluster has just succeeded: proxies are free again, while a
\* reported proxy is still known and not free
C24_ClusterRemoved ==
    /\ op = "remove_cluster"
    /\ res.err = "Ok"
    /\ get_free_proxies(S) # {}
    /\ \E p \in DOMAIN failures : p \in DOMAIN all_proxies /\ p \notin failed_proxies

\* C25: get_proxy_by_address(addr) returns None for an address that is not in
\* all_proxies. For a known proxy that a chunk references the view lists
\* exactly the two cluster nodes of that proxy and no free node; for a known
\* proxy that no chunk references (also without a cluster) it lists no cluster
\* node, no peer and both of its node addresses as free. The view carries the
\* current global_epoch.
C25_ProxyView ==
    \A addr \in AllProxyAddrs \cup {BadAddr} :
        LET view == get_proxy_by_address(S, addr)
        IN  IF addr \notin DOMAIN all_proxies THEN view = None
            ELSE /\ IsSome(view)
                 /\ view[1].address = addr
                 /\ view[1].epoch = global_epoch
                 /\ IF addr \in OccupiedProxies(S)
                    THEN /\ Len(view[1].nodes) = 2
                         /\ \A k \in 1..2 :
                               /\ view[1].nodes[k].proxy_address = addr
                               /\ view[1].nodes[k].address = all_proxies[addr][k]
                               /\ \E c \in 1..Len(ChunksOf(S)), j \in 1..CHUNK_PARTS :
                                     /\ ChunksOf(S)[c].proxy_addresses[j] = addr
                                     /\ ChunksOf(S)[c].node_addresses[2 * (j - 1) + k] =
                                            view[1].nodes[k].address
                         /\ view[1].free_nodes = <<>>
                    ELSE /\ view[1].nodes = <<>>
                         /\ view[1].peers = <<>>
                         /\ Len(view[1].free_nodes) = 2
                         /\ view[1].free_nodes = all_proxies[addr]

\* replace_failed_proxy has just returned the view of the proxy it placed,
\* with two cluster nodes; another known proxy is referenced by no chunk and
\* an address is unknown
C25_ViewOfPlacedProxy ==
    /\ op = "replace_failed_proxy"
    /\ res.err = "Ok"
    /\ IsSome(res.ret)
    /\ Len(res.ret[1].nodes) = 2
    /\ res.ret[1].address \in OccupiedProxies(S)
    /\ DOMAIN all_proxies \ OccupiedProxies(S) # {}
    /\ AllProxyAddrs \ DOMAIN all_proxies # {}

\* the slot ranges the projection lists for master m (0-based) of a cluster
\* whose chunks are all in role position Normal
MasterRanges(s, m) ==
    get_cluster_nodes(s)[CHUNK_NODE_NUM * (m \div 2) + 2 * (m % 2) + 1].slots

\* C26: right after migrate_slots on a cluster without migration entries,
\* whose existing masters hold the even-split counts and whose appended
\* chunks have no stable slots, every existing master keeps exactly
\* avg + (1 if index < rem else 0) stable slots for the new master count, and
\* the importing entries of every new master sum to exactly
\* avg + (1 if index < rem else 0) slots; in the projection an existing
\* master lists its stable range first and then Migrating ranges only, a new
\* master lists at least one range, all of them Importing.
C26_PlanEvenSplit ==
    (op = "migrate_slots" /\ res.err = "Ok") =>
        LET M == 2 * Len(ChunksOf(S))
        IN  \A m \in 0..(M - 1) :
                LET chunk == ChunksOf(S)[(m \div 2) + 1]
                    list == chunk.migrating_slots[(m % 2) + 1]
                    listed == MasterRanges(S, m)
                IN  /\ chunk.role_position = "Normal"
                    /\ IF IsSome(chunk.stable_slots[(m % 2) + 1])
                       THEN /\ MasterSlots(S, m) = EvenSize(m, M)
                            /\ \A k \in 1..Len(list) : list[k].is_migrating
                            /\ Len(listed) = 1 + Len(list)
                            /\ listed[1].tag.kind = "None"
                            /\ listed[1].range_list = chunk.stable_slots[(m % 2) + 1][1]
                            /\ \A k \in 2..Len(listed) : listed[k].tag.kind = "Migrating"
                       ELSE /\ \A k \in 1..Len(list) : ~list[k].is_migrating
                            /\ SumSeq([k \in 1..Len(list) |-> get_slots_num(list[k].range_list)])
                                   = EvenSize(m, M)
                            /\ Len(listed) >= 1
                            /\ \A k \in 1..Len(listed) : listed[k].tag.kind = "Importing"

\* migrate_slots has just planned the growth from 2 to 6 masters, where
\* SLOT_NUM leaves a remainder and a new master imports from two sources
C26_PlanWithRemainder ==
    /\ op = "migrate_slots" /\ res.err = "Ok"
    /\ Len(ChunksOf(S)) = 3
    /\ IsNone(ChunksOf(S)[2].stable_slots[1])
    /\ \E c \in 2..3, j \in 1..CHUNK_PARTS : Len(ChunksOf(S)[c].migrating_slots[j]) >= 2

\* C27 as stated: migrate_slots hands off slots from the right end of every
\* source master. Every slot of an is_migrating entry that a successful
\* migrate_slots appends to a part is larger than every slot that stays in
\* the stable range list of that part, also when the stable slots of the part
\* came from earlier commits.
C27_HandOffFromRightEnd ==
    IsSome(cluster) =>
        \A o \in migrate_slots(S, cluster[1].name) :
            o.err = "Ok" =>
                \A c \in 1..Len(ChunksOf(S)), j \in 1..CHUNK_PARTS :
                    LET old == ChunksOf(S)[c].migrating_slots[j]
                        new == ChunksOf(o.store)[c].migrating_slots[j]
                        rest == StableRanges(ChunksOf(o.store)[c].stable_slots[j])
                    IN  \A k \in (Len(old) + 1)..Len(new) :
                            new[k].is_migrating =>
                                \A a \in 1..Len(new[k].range_list), b \in 1..Len(rest) :
                                    new[k].range_list[a][1] > rest[b][2]

\* the ranges are sorted ascending and no two of them overlap or are adjacent
Normalized(range_list) ==
    \A k \in 1..Len(range_list) :
        /\ range_list[k][1] <= range_list[k][2]
        /\ k < Len(range_list) => range_list[k][2] + 1 < range_list[k + 1][1]

\* C28 as stated: after every successful commit_migration the stable range
\* list of the destination part is normalized (sorted ascending, no two ranges
\* overlapping or adjacent), whether the part had stable slots before the
\* commit or not.
C28_CommitNormalizes ==
    \A task \in MigratingTasks :
        \A o \in commit_migration(S, task) :
            o.err = "Ok" =>
                \A q \in Matches(S, task, FALSE) :
                    Normalized(StableRanges(ChunksOf(o.store)[q[1]].stable_slots[q[2]]))

\* the hosts that have a free proxy
FreeHosts(s) == {HostOf(a) : a \in get_free_proxies(s)}

\* the proxy that takes the place of the proxy f of the store s in the store t
ReplacementOf(s, t, f) ==
    LET at == ChunkOfProxy(ChunksOf(s), f)
    IN  ChunksOf(t)[at[1]].proxy_addresses[at[2] + 1]

\* C29 as stated: the proxy that a successful replace_failed_proxy(f) puts in
\* the place of f is never on the host of f, and its host has the smallest
\* link count with the host of f among the other hosts that have a free
\* proxy, where the link count of two hosts is the number of chunks of the
\* cluster that pair them, the chunk of f included.
C29_ReplacementHost ==
    \A f \in DOMAIN all_proxies :
        \A o \in replace_failed_proxy(S, f) :
            o.err = "Ok" =>
                LET h == HostOf(ReplacementOf(S, o.store, f))
                IN  /\ h # HostOf(f)
                    /\ h \in FreeHosts(S)
                    /\ \A g \in FreeHosts(S) \ {HostOf(f)} :
                          LinkedNum(S, HostOf(f), h) <= LinkedNum(S, HostOf(f), g)

\* step k of the pairing loop that made the pairs from the free proxies hp of
\* the store s follows the rule: the first proxy is on a host with the most
\* free proxies left, the second on another host with a free proxy left whose
\* link count with the first host is minimal, where the pairs made in the
\* steps before count as links in both directions
PairingStep(s, hp, pairs, k) ==
    LET used == UNION {{pairs[n][1], pairs[n][2]} : n \in 1..(k - 1)}
        Left(h) == hp[h] \ used
        first_host == HostOf(pairs[k][1])
        second_host == HostOf(pairs[k][2])
        Link(a, b) ==
            LinkedNum(s, a, b)
              + Cardinality({n \in 1..(k - 1) :
                               {HostOf(pairs[n][1]), HostOf(pairs[n][2])} = {a, b}})
        others == {h \in DOMAIN hp : h # first_host /\ Left(h) # {}}
    IN  /\ first_host \in DOMAIN hp
        /\ pairs[k][1] \in Left(first_host)
        /\ \A h \in DOMAIN hp : Cardinality(Left(h)) <= Cardinality(Left(first_host))
        /\ second_host \in others
        /\ pairs[k][2] \in Left(second_host)
        /\ \A g \in others : Link(first_host, second_host) <= Link(first_host, g)

\* C30: in each step of the pairing loop of allocate_chunk the first proxy is
\* taken from a host with the largest number of remaining free proxies, the
\* second from a different host that still has a free proxy and whose link
\* count to the first host is minimal among such hosts; the link count of the
\* chosen pair of hosts is incremented in both directions before the next
\* step. Checked for the allocation of one and of two chunks from the free
\* proxies of the store, as add_cluster and auto_add_nodes request it.
C30_PairingLoop ==
    \A expected_num \in {2, 4} :
        \A r \in remove_redundant_chunks(HostProxies(get_free_proxies(S)), expected_num) :
            r.err = "Ok" =>
                \A a \in allocate_chunk(r.host_proxies, build_link_table(S), expected_num) :
                    a.err = "Ok" =>
                        /\ Len(a.pairs) * 2 = expected_num
                        /\ \A k \in 1..Len(a.pairs) :
                              PairingStep(S, r.host_proxies, a.pairs, k)

\* add_cluster has just built two chunks that share the host of their first
\* proxies while the host of the second proxy of the first chunk still has a
\* free proxy: the link made in the first step kept that host from being
\* paired again in the second
C30_LinkOfFirstStepCounted ==
    /\ op = "add_cluster"
    /\ res.err = "Ok"
    /\ Len(ChunksOf(S)) = 2
    /\ HostOf(ChunksOf(S)[2].proxy_addresses[1]) = HostOf(ChunksOf(S)[1].proxy_addresses[1])
    /\ HostOf(ChunksOf(S)[1].proxy_addresses[2]) \in FreeHosts(S)

\* C31: the allocator never aborts. For the free proxies of the store and
\* every requested proxy count of 2, 4 or 6, consume_proxy returns an error
\* value or returns half as many pairs as proxies were requested; no outcome
\* is the failure of an expect call in the pairing loop, so every step finds a
\* host with a free proxy for the first member and another one for the second.
C31_AllocatorNeverAborts ==
    \A proxy_num \in {2, 4, 6} :
        \A c \in consume_proxy(S, proxy_num) :
            /\ c.err \in {"Ok", "NoAvailableResource", "ResourceNotBalance"}
            /\ c.err = "Ok" =>
                  /\ Len(c.pairs) * 2 = proxy_num
                  /\ \A k \in 1..Len(c.pairs) :
                        /\ c.pairs[k][1].proxy_address \in get_free_proxies(S)
                        /\ c.pairs[k][2].proxy_address \in get_free_proxies(S)
                        /\ HostOf(c.pairs[k][1].proxy_address)
                              # HostOf(c.pairs[k][2].proxy_address)

\* auto_add_nodes has just doubled a cluster of two chunks and used the last
\* free proxy of the pool
C31_PoolUsedUp ==
    /\ op = "auto_add_nodes"
    /\ res.err = "Ok"
    /\ Len(ChunksOf(S)) = 4
    /\ get_free_proxies(S) = {}

\* the number of free proxies that remove_redundant_chunks leaves: a bucket
\* larger than all the others together is cut down to their size
RemainingNum(hp) ==
    LET others == SumProxyNum(hp) - MaxProxyNum(hp)
    IN  IF MaxProxyNum(hp) > others THEN 2 * others ELSE SumProxyNum(hp)

\* C32: after remove_redundant_chunks the largest bucket holds at most half of
\* the remaining free proxies, only proxies of one originally largest host
\* were dropped, and NoAvailableResource is returned exactly when the
\* remaining total is smaller than the requested count; the ResourceNotBalance
\* check of allocate_chunk is never triggered through consume_proxy, which is
\* how add_cluster and auto_add_nodes allocate.
C32_PruneBalances ==
    \A expected_num \in {2, 4, 6} :
        LET hp == HostProxies(get_free_proxies(S))
        IN  /\ \A r \in remove_redundant_chunks(hp, expected_num) :
                  /\ r.err \in {"Ok", "NoAvailableResource"}
                  /\ r.err = "NoAvailableResource" <=> RemainingNum(hp) < expected_num
                  /\ r.err = "Ok" =>
                        /\ DOMAIN r.host_proxies = DOMAIN hp
                        /\ 2 * MaxProxyNum(r.host_proxies) <= SumProxyNum(r.host_proxies)
                        /\ SumProxyNum(r.host_proxies) = RemainingNum(hp)
                        /\ \E h \in DOMAIN hp \cup {"none"} :
                              /\ h \in DOMAIN hp => Cardinality(hp[h]) = MaxProxyNum(hp)
                              /\ \A g \in DOMAIN hp :
                                    /\ r.host_proxies[g] \subseteq hp[g]
                                    /\ g # h => r.host_proxies[g] = hp[g]
                        /\ \A a \in allocate_chunk(r.host_proxies, build_link_table(S),
                                                   expected_num) :
                              a.err # "ResourceNotBalance"
            /\ \A c \in consume_proxy(S, expected_num) : c.err # "ResourceNotBalance"

\* add_cluster has just built its chunk from a pool with three proxies on one
\* host and one on another: two proxies of the large host were left out and
\* are still free
C32_LargeHostCutDown ==
    /\ op = "add_cluster"
    /\ res.err = "Ok"
    /\ Len(ChunksOf(S)) = 1
    /\ Cardinality(get_free_proxies(S)) = 2
    /\ \E a \in OccupiedProxies(S) : \A p \in get_free_proxies(S) : HostOf(p) = HostOf(a)

\* the nodes of the projection that carry a slot range with the given kind of
\* tag, range list and meta
Carriers(s, kind, range_list, meta) ==
    {n \in 1..Len(get_cluster_nodes(s)) :
        \E k \in 1..Len(get_cluster_nodes(s)[n].slots) :
            LET sr == get_cluster_nodes(s)[n].slots[k]
            IN  /\ sr.tag.kind = kind
                /\ sr.range_list = range_list
                /\ sr.tag.meta = meta}

\* C33 as stated: in the projection, the meta of every Migrating or Importing
\* slot range names as source the Master node that carries the Migrating copy
\* of the range and as destination the Master node that carries the Importing
\* copy, whatever the role_position of the two chunks is.
C33_MetaNamesCarriers ==
    LET nodes == get_cluster_nodes(S)
    IN  \A n \in 1..Len(nodes) :
            \A k \in 1..Len(nodes[n].slots) :
                LET sr == nodes[n].slots[k]
                IN  sr.tag.kind \in {"Migrating", "Importing"} =>
                        /\ \A m \in Carriers(S, "Migrating", sr.range_list, sr.tag.meta) :
                              /\ nodes[m].role = "Master"
                              /\ nodes[m].proxy_address = sr.tag.meta.src_proxy_address
                              /\ nodes[m].address = sr.tag.meta.src_node_address
                        /\ \A m \in Carriers(S, "Importing", sr.range_list, sr.tag.meta) :
                              /\ nodes[m].role = "Master"
                              /\ nodes[m].proxy_address = sr.tag.meta.dst_proxy_address
                              /\ nodes[m].address = sr.tag.meta.dst_node_address
                        /\ Carriers(S, "Migrating", sr.range_list, sr.tag.meta) # {}
                        /\ Carriers(S, "Importing", sr.range_list, sr.tag.meta) # {}

\* C34: committing the same task a second time returns MigrationTaskNotFound
\* and leaves the store unchanged, and committing a task through its
\* Importing-tagged slot range has exactly the outcome of committing it
\* through its Migrating-tagged slot range.
C34_CommitOnceEitherTag ==
    /\ \A task \in Tasks :
          \A o \in commit_migration(S, task) :
              o.err = "Ok" =>
                  \A again \in commit_migration(o.store, task) :
                      /\ again.err = "MigrationTaskNotFound"
                      /\ again.store = o.store
    /\ \A t1, t2 \in Tasks :
          (/\ t1.slot_range.tag.kind = "Migrating"
           /\ t2.slot_range.tag.kind = "Importing"
           /\ t1.slot_range.range_list = t2.slot_range.range_list
           /\ t1.slot_range.tag.meta.epoch = t2.slot_range.tag.meta.epoch)
              => /\ commit_migration(S, t1) = commit_migration(S, t2)
                 /\ \E o \in commit_migration(S, t2) : o.err = "Ok"
    /\ \A t2 \in Tasks :
          t2.slot_range.tag.kind = "Importing" =>
              \E t1 \in Tasks :
                  /\ t1.slot_range.tag.kind = "Migrating"
                  /\ t1.slot_range.range_list = t2.slot_range.range_list
                  /\ t1.slot_range.tag.meta.epoch = t2.slot_range.tag.meta.epoch

\* a task has just been committed while other tasks are uncommitted, and a
\* second commit of a task of that epoch with the slots now stable at some
\* master is not found
C34_CommittedWhileOthersWait ==
    /\ op = "commit_migration"
    /\ res.err = "Ok"
    /\ Tasks # {}
    /\ \E t \in Tasks, c \in 1..Len(ChunksOf(S)), j \in 1..CHUNK_PARTS :
          /\ IsSome(ChunksOf(S)[c].stable_slots[j])
          /\ ChunksOf(S)[c].migrating_slots[j] = <<>>
          /\ \A o \in commit_migration(S, [t EXCEPT !.slot_range.range_list =
                                              ChunksOf(S)[c].stable_slots[j][1]]) :
                o.err = "MigrationTaskNotFound"

\* the slots of a stable slot option as a sorted list of maximal ranges
StableSlotSet(opt) == merge_another(<<>>, StableRanges(opt))

\* the two stores have the same set of stable slots at every master, the same
\* migration entries at every chunk part, and the same global_epoch
SameMigrationState(s, t) ==
    /\ Len(ChunksOf(s)) = Len(ChunksOf(t))
    /\ \A c \in 1..Len(ChunksOf(s)), j \in 1..CHUNK_PARTS :
          /\ StableSlotSet(ChunksOf(s)[c].stable_slots[j])
                = StableSlotSet(ChunksOf(t)[c].stable_slots[j])
          /\ ChunksOf(s)[c].migrating_slots[j] = ChunksOf(t)[c].migrating_slots[j]
    /\ s.global_epoch = t.global_epoch

\* C35: the commits of two different uncommitted tasks of one plan commute:
\* both orders succeed and yield the same set of stable slots at every master,
\* the same remaining migration entries and the same global_epoch.
C35_CommitsCommute ==
    \A t1, t2 \in MigratingTasks :
        (/\ t1 # t2
         /\ t1.slot_range.tag.meta.epoch = t2.slot_range.tag.meta.epoch) =>
            \A o1 \in commit_migration(S, t1), o2 \in commit_migration(S, t2) :
                /\ o1.err = "Ok"
                /\ o2.err = "Ok"
                /\ \A o12 \in commit_migration(o1.store, t2),
                      o21 \in commit_migration(o2.store, t1) :
                        /\ o12.err = "Ok"
                        /\ o21.err = "Ok"
                        /\ SameMigrationState(o12.store, o21.store)

\* two uncommitted tasks of one plan import into the same master
C35_TwoTasksIntoOneMaster ==
    \E t1, t2 \in MigratingTasks :
        /\ t1 # t2
        /\ t1.slot_range.tag.meta.epoch = t2.slot_range.tag.meta.epoch
        /\ t1.slot_range.tag.meta.dst_node_address = t2.slot_range.tag.meta.dst_node_address
        /\ \E o \in commit_migration(S, t1) : o.err = "Ok"

\* C36: in every reachable state no proxy address occupies more than one proxy
\* position of the cluster, every proxy a chunk references is registered in
\* all_proxies with the two node addresses the chunk holds for that position,
\* every failed proxy is registered, and no failed proxy is referenced by a
\* chunk.
C36_ProxyBookkeeping ==
    LET chunks == ChunksOf(S)
        Parts == (1..Len(chunks)) \X (1..CHUNK_PARTS)
    IN  /\ \A p, q \in Parts :
              chunks[p[1]].proxy_addresses[p[2]] = chunks[q[1]].proxy_addresses[q[2]]
                  => p = q
        /\ \A p \in Parts :
              LET addr == chunks[p[1]].proxy_addresses[p[2]]
              IN  /\ addr \in DOMAIN all_proxies
                  /\ all_proxies[addr] =
                        << chunks[p[1]].node_addresses[NODES_PER_PROXY * (p[2] - 1) + 1],
                           chunks[p[1]].node_addresses[NODES_PER_PROXY * (p[2] - 1) + 2] >>
        /\ failed_proxies \subseteq DOMAIN all_proxies
        /\ failed_proxies \cap OccupiedProxies(S) = {}

\* a failed proxy has just been replaced in its chunk: it is registered as
\* failed and the chunk references the returned proxy
C36_FailedProxyReplaced ==
    /\ op = "replace_failed_proxy"
    /\ res.err = "Ok"
    /\ failed_proxies # {}
    /\ IsSome(res.ret)
    /\ res.ret[1].address \in OccupiedProxies(S)

\* some chunk of the store has both stable slots None
HasEmptyChunk(s) ==
    \E c \in 1..Len(ChunksOf(s)) :
        IsNone(ChunksOf(s)[c].stable_slots[1]) /\ IsNone(ChunksOf(s)[c].stable_slots[2])

\* migrate_slots with the cluster's name succeeds and changes nothing of the
\* store but global_epoch, which it bumps by one
MigrateSlotsOnlyBumps ==
    \A o \in migrate_slots(S, cluster[1].name) :
        /\ o.err = "Ok"
        /\ o.store = [S EXCEPT !.global_epoch = @ + 1]

\* C37 as stated: migrate_slots on a cluster in which no chunk has both stable
\* slots None succeeds, creates no migration entry, changes no stable range
\* and bumps global_epoch by one.
C37_NothingToRedistribute ==
    (IsSome(cluster) /\ ~HasEmptyChunk(S)) => MigrateSlotsOnlyBumps

\* C37 with the test for a running migration: migrate_slots on a cluster in
\* which no chunk has both stable slots None and no chunk has both migrating
\* lists non-empty succeeds, creates no migration entry, changes no stable
\* range and bumps global_epoch by one.
C37_NothingToRedistributeWhenIdle ==
    (IsSome(cluster) /\ ~HasEmptyChunk(S) /\ ~running_migration(ChunksOf(S)))
        => MigrateSlotsOnlyBumps

\* migrate_slots has just succeeded on a cluster without an empty chunk, in
\* which entries of an earlier plan wait for their commit
C37_MigrateSlotsWithoutEmptyChunk ==
    /\ op = "migrate_slots"
    /\ res.err = "Ok"
    /\ ~HasEmptyChunk(S)
    /\ HasEntries(S)

\* the tasks that differ from the task in db_name or in the proxy and node
\* addresses inside the tag only
Lookalikes(task) ==
    LET meta == task.slot_range.tag.meta
        metas == {meta,
                  [meta EXCEPT !.src_proxy_address = meta.dst_proxy_address,
                               !.dst_proxy_address = meta.src_proxy_address],
                  [meta EXCEPT !.src_node_address = meta.dst_node_address,
                               !.dst_node_address = meta.src_node_address],
                  [meta EXCEPT !.src_proxy_address = BadAddr,
                               !.src_node_address = BadAddr,
                               !.dst_proxy_address = BadAddr,
                               !.dst_node_address = BadAddr]}
    IN  {[task EXCEPT !.db_name = n, !.slot_range.tag.meta = m] :
            n \in ValidNames, m \in metas}

\* C38: the outcome of commit_migration depends on the task's tag kind, tag
\* epoch and range_list only: a task that differs from another one in db_name
\* or in the proxy and node addresses inside the tag gives the same result and
\* the same store, so that a task of the projection is committed under the
\* name of another cluster too.
C38_CommitIgnoresNameAndAddresses ==
    /\ \A task \in Tasks \cup StaleTasks :
          task.slot_range.tag.kind # "None" =>
              \A other \in Lookalikes(task) :
                  commit_migration(S, other) = commit_migration(S, task)
    /\ \A task \in Tasks :
          (IsSome(cluster) /\ task.slot_range.tag.kind # "None") =>
              \A other \in Lookalikes(task) :
                  (other.db_name # cluster[1].name) =>
                      \A o \in commit_migration(S, other) : o.err = "Ok"

\* a task has just been committed, and an uncommitted task of the projection
\* commits under the name of another cluster and with foreign addresses
C38_ForeignNameCommits ==
    /\ op = "commit_migration"
    /\ res.err = "Ok"
    /\ IsSome(cluster)
    /\ \E task \in Tasks :
          /\ task.slot_range.tag.kind = "Importing"
          /\ \E other \in Lookalikes(task) :
                /\ other.db_name # cluster[1].name
                /\ other.slot_range.tag.meta.src_proxy_address = BadAddr
                /\ \E o \in commit_migration(S, other) :
                      o.err = "Ok" /\ o.store.global_epoch = global_epoch + 1

-----------------------------------------------------------------------------
(* The command reply pair of the proxy (src/proxy/command.rs): a            *)
(* CmdReplySender and a CmdReplyReceiver around a oneshot channel. The      *)
(* variable pair holds the pair, None while no pair has been made:          *)
(*   reply_sender  the field of CmdReplySender, Option<oneshot::Sender>     *)
(*   sender        "alive" or "dropped", the CmdReplySender value           *)
(*   data          the slot of the channel, Option<TaskResult>              *)
(*   complete      the sending half of the channel is gone (used or dropped)*)
(*   receiver      "pending", "resolved" or "dropped"                       *)
(*   output        what poll returned with Ready, Option<TaskResult>        *)
(*   sent, rets    the arguments and the return values of the send calls    *)
(* A TaskResult is <<"Ok", reply>> or <<"Err", error>>.                     *)

\* the send calls made on one sender are explored up to this number
MaxSends == 2

TaskOk(reply) == <<"Ok", reply>>
TaskErr(error) == <<"Err", error>>

\* the results a command task sends
TaskResults == {TaskOk("r1"), TaskOk("r2"), TaskErr("Io"), TaskErr("Dropped")}

\* new_command_pair
new_command_pair ==
    [reply_sender |-> Some("Sender"), sender |-> "alive",
     data |-> None, complete |-> FALSE,
     receiver |-> "pending", output |-> None,
     sent |-> <<>>, rets |-> <<>>]

\* oneshot::Sender::send as try_send uses it (line 287): the value is stored
\* unless the receiver is gone; the sending half is consumed
oneshot_send(p, result) ==
    IF p.receiver = "dropped"
    THEN [pair |-> [p EXCEPT !.complete = TRUE], ok |-> FALSE]
    ELSE [pair |-> [p EXCEPT !.data = Some(result), !.complete = TRUE], ok |-> TRUE]

\* a variant of try_send that keeps the sending half for the next call
try_send_again(p, result) ==
    IF IsSome(p.reply_sender)
    THEN LET r == oneshot_send(p, result)
         IN  [pair |-> r.pair, ret |-> Some(IF r.ok THEN "Ok" ELSE "Canceled")]
    ELSE [pair |-> p, ret |-> None]

\* CmdReplySender::try_send: the pair after the call and the returned
\* Option<Result<(), CommandError>>
try_send(p, result) ==
    IF IsSome(p.reply_sender)
    THEN LET r == oneshot_send([p EXCEPT !.reply_sender = None], result)
         IN  [pair |-> r.pair, ret |-> Some(IF r.ok THEN "Ok" ELSE "Canceled")]
    ELSE [pair |-> p, ret |-> None]

\* CmdReplySender::send: the pair after the call and the returned result
send(p, result) ==
    LET t == try_send(p, result)
    IN  [pair |-> t.pair, ret |-> IF IsSome(t.ret) THEN t.ret[1] ELSE "InnerError"]

\* a variant of drop that sends nothing
drop_silently(p) ==
    [p EXCEPT !.reply_sender = None, !.complete = TRUE, !.sender = "dropped"]

\* Drop for CmdReplySender: try_send(Err(Dropped)), then the field is dropped,
\* which closes the channel if the sending half is still there
drop(p) ==
    LET q == try_send(p, TaskErr("Dropped")).pair
    IN  [q EXCEPT !.reply_sender = None, !.complete = TRUE, !.sender = "dropped"]

\* Future::poll of CmdReplyReceiver: Pending until the sending half is gone,
\* then the value sent, or Err(Canceled) if there is none
poll(p) ==
    IF ~p.complete THEN p
    ELSE [p EXCEPT !.receiver = "resolved",
                   !.output = Some(IF IsSome(p.data) THEN p.data[1] ELSE TaskErr("Canceled")),
                   !.data = None]

\* no call touches the store
StoreIdle ==
    UNCHANGED <<global_epoch, cluster, all_proxies, failed_proxies, failures, now, op, res>>

InitReply ==
    /\ global_epoch = DefaultStore.global_epoch
    /\ cluster = DefaultStore.cluster
    /\ all_proxies = DefaultStore.all_proxies
    /\ failed_proxies = DefaultStore.failed_proxies
    /\ failures = DefaultStore.failures
    /\ now = 0
    /\ op = "init"
    /\ res = [err |-> "Ok", ret |-> None]
    /\ pair = Some(new_command_pair)

\* the owner of the sender calls send
ReplySend ==
    /\ pair[1].sender = "alive"
    /\ Len(pair[1].sent) < MaxSends
    /\ \E result \in TaskResults :
          LET r == send(pair[1], result)
          IN  pair' = Some([r.pair EXCEPT !.sent = Append(@, result),
                                          !.rets = Append(@, r.ret)])
    /\ StoreIdle

\* the sender goes out of scope
ReplyDrop ==
    /\ pair[1].sender = "alive"
    /\ pair' = Some(drop(pair[1]))
    /\ StoreIdle

\* the task awaiting the receiver is polled
ReplyPoll ==
    /\ pair[1].receiver = "pending"
    /\ pair' = Some(poll(pair[1]))
    /\ StoreIdle

\* the task awaiting the receiver is given up
ReplyDropReceiver ==
    /\ pair[1].receiver = "pending"
    /\ pair' = Some([pair[1] EXCEPT !.receiver = "dropped"])
    /\ StoreIdle

NextReply ==
    \/ ReplySend
    \/ ReplyDrop
    \/ ReplyPoll
    \/ ReplyDropReceiver

SpecReply == InitReply /\ [][NextReply]_vars

\* The same pair under the scheduling of the program: a sender is owned by a
\* command task and is dropped when the task ends, and the receiver is woken
\* and polled once the sending half is gone.
SpecReplyFair ==
    /\ InitReply
    /\ [][NextReply]_vars
    /\ WF_vars(ReplyDrop)
    /\ WF_vars(ReplyPoll)

\* C39: a command reply is delivered at most once. The first send returns Ok
\* and hands its result to the receiver, or returns Canceled if the receiver
\* is gone; every later send on the same sender returns InnerError; and
\* neither a later send nor the drop of the sender changes the result the
\* receiver obtains: a receiver that resolves after a first send that
\* returned Ok resolves with the result of that send.
C39_ReplyDeliveredOnce ==
    LET p == pair[1]
    IN  /\ \A k \in 1..Len(p.rets) :
              IF k = 1 THEN p.rets[k] \in {"Ok", "Canceled"} ELSE p.rets[k] = "InnerError"
        /\ (p.rets # <<>> /\ p.rets[1] = "Canceled") =>
              (p.receiver = "dropped" /\ IsNone(p.data) /\ IsNone(p.output))
        /\ (p.rets # <<>> /\ p.rets[1] = "Ok") =>
              /\ p.receiver = "pending" => p.data = Some(p.sent[1])
              /\ p.receiver = "resolved" => p.output = Some(p.sent[1])
        /\ p.rets # <<>> =>
              /\ \A result \in TaskResults :
                    /\ send(p, result).ret = "InnerError"
                    /\ send(p, result).pair = p
              /\ p.sender = "alive" =>
                    /\ drop(p).data = p.data
                    /\ drop(p).output = p.output
                    /\ p.receiver = "pending" => poll(drop(p)).output = poll(p).output

\* two different results were sent, the sender has been dropped, and the
\* receiver has resolved with the first result
C39_SecondSendRefused ==
    LET p == pair[1]
    IN  /\ Len(p.sent) = 2
        /\ p.sent[1] # p.sent[2]
        /\ p.rets = <<"Ok", "InnerError">>
        /\ p.sender = "dropped"
        /\ p.receiver = "resolved"
        /\ p.output = Some(p.sent[1])

\* the receiver has resolved with the result, or is no longer awaited
ResolvedWith(result) ==
    \/ pair[1].receiver = "dropped"
    \/ pair[1].receiver = "resolved" /\ pair[1].output = Some(result)

=============================================================================
